---- MODULE Spec2Model ----
(***************************************************************************)
(* A model of the Tor archive catalog builder (main.py).                   *)
(*                                                                         *)
(* Strings (version names, file names, URLs) are sequences of one-         *)
(* character strings, so that the substring, prefix and digit-run          *)
(* operations of the source are computed, not assumed.                     *)
(*                                                                         *)
(* The environment: the upstream archive (a root listing and one listing   *)
(* per version, fixed during a behaviour), the outcome of every listing    *)
(* fetch (a body, or the exception safe_request raises after its last      *)
(* retry), the outcome of every cache-tier write (written; open() raises   *)
(* and no file appears; or the write raises after open() created the       *)
(* file, which is left truncated and is no longer valid JSON), the         *)
(* iteration order of a Python set of strings and of os.listdir.  The      *)
(* writes of the catalog phase (lines 346-379) are taken to succeed.       *)
(***************************************************************************)
EXTENDS Naturals, Sequences, FiniteSets, TLC

(***************************************************************************)
(* Bounds of the model.                                                    *)
(***************************************************************************)
\* the number of runs of main.py in one behaviour
MaxRuns == 3
\* the number of failing fetches and failing cache writes in one behaviour
MaxFaults == 2

(***************************************************************************)
(* Strings as character sequences.                                         *)
(***************************************************************************)
Digits == {"0","1","2","3","4","5","6","7","8","9"}

UpperCase == <<"A","B","C","D","E","F","G","H","I","J","K","L","M","N","O","P","Q","R","S","T","U","V","W","X","Y","Z">>

LowerCase == <<"a","b","c","d","e","f","g","h","i","j","k","l","m","n","o","p","q","r","s","t","u","v","w","x","y","z">>

IsDigit(c) == c \in Digits

IsLetter(c) == \E i \in 1..26 : c = UpperCase[i] \/ c = LowerCase[i]

\* int() of one decimal digit
DigitVal(c) ==
    CASE c = "0" -> 0 [] c = "1" -> 1 [] c = "2" -> 2 [] c = "3" -> 3
      [] c = "4" -> 4 [] c = "5" -> 5 [] c = "6" -> 6 [] c = "7" -> 7
      [] c = "8" -> 8 [] c = "9" -> 9

\* int(run) of a run of decimal digits
RECURSIVE IntOf(_)
IntOf(run) ==
    IF Len(run) = 0 THEN 0
    ELSE IntOf(SubSeq(run, 1, Len(run) - 1)) * 10 + DigitVal(run[Len(run)])

\* the number of consecutive digits of s from position p on
RECURSIVE DigitRunLen(_, _)
DigitRunLen(s, p) ==
    IF p > Len(s) \/ ~IsDigit(s[p]) THEN 0 ELSE 1 + DigitRunLen(s, p + 1)

\* re.findall(r'\d+', s) from position p on: the maximal digit runs, left to right
RECURSIVE FindDigitRuns(_, _)
FindDigitRuns(s, p) ==
    IF p > Len(s) THEN << >>
    ELSE LET n == DigitRunLen(s, p)
         IN  IF n = 0 THEN FindDigitRuns(s, p + 1)
             ELSE << SubSeq(s, p, p + n - 1) >> \o FindDigitRuns(s, p + n)

\* list(map(int, runs))
RECURSIVE MapInt(_)
MapInt(runs) ==
    IF Len(runs) = 0 THEN << >> ELSE << IntOf(runs[1]) >> \o MapInt(Tail(runs))

\* list(map(int, re.findall(r'\d+', s))): the sort key of a version
VersionKey(s) == MapInt(FindDigitRuns(s, 1))

\* a < b for two Python lists of integers
ListLess(a, b) ==
    \E k \in 1..Len(b) :
        /\ k <= Len(a) + 1
        /\ \A j \in 1..(k - 1) : a[j] = b[j]
        /\ (k = Len(a) + 1 \/ a[k] < b[k])

\* word in s (Python's substring test)
Contains(word, s) ==
    \E i \in 1..(Len(s) + 1) :
        /\ i + Len(word) - 1 <= Len(s)
        /\ SubSeq(s, i, i + Len(word) - 1) = word

\* s.startswith(prefix)
StartsWith(s, prefix) ==
    /\ Len(prefix) <= Len(s)
    /\ SubSeq(s, 1, Len(prefix)) = prefix

\* any(word in s for word in words)
AnyWordIn(words, s) == \E k \in 1..Len(words) : Contains(words[k], s)

\* any(s.startswith(prefix) for prefix in prefixes)
AnyPrefixOf(prefixes, s) == \E k \in 1..Len(prefixes) : StartsWith(s, prefixes[k])

\* the lower-case letter of every upper-case letter
LowerOf == [c \in {UpperCase[k] : k \in 1..26} |->
               LowerCase[CHOOSE k \in 1..26 : UpperCase[k] = c]]

\* c.lower() of one character
LowerChar(c) == IF c \in DOMAIN LowerOf THEN LowerOf[c] ELSE c

\* s.lower()
RECURSIVE ToLower(_)
ToLower(s) ==
    IF Len(s) = 0 THEN << >> ELSE << LowerChar(s[1]) >> \o ToLower(Tail(s))

Range(s) == {s[i] : i \in 1..Len(s)}

\* the orders in which the elements of a finite set can be iterated
Orders(S) ==
    {f \in [1..Cardinality(S) -> S] : \A x \in S : \E i \in 1..Cardinality(S) : f[i] = x}

\* list.sort(key=...) and sorted(key=...): a stable sort of items [key, val]
RECURSIVE InsertByKey(_, _)
InsertByKey(sorted, item) ==
    IF Len(sorted) = 0 THEN << item >>
    ELSE IF ListLess(item.key, sorted[Len(sorted)].key)
         THEN Append(InsertByKey(SubSeq(sorted, 1, Len(sorted) - 1), item),
                     sorted[Len(sorted)])
         ELSE Append(sorted, item)

RECURSIVE StableSort(_)
StableSort(items) ==
    IF Len(items) = 0 THEN << >>
    ELSE InsertByKey(StableSort(SubSeq(items, 1, Len(items) - 1)), items[Len(items)])

(***************************************************************************)
(* Program constants (main.py, lines 25-51).                               *)
(***************************************************************************)
BASE_URL ==
    <<"h","t","t","p","s",":","/","/","a","r","c","h","i","v","e",".","t","o","r","p","r","o","j","e","c","t",".","o","r","g","/","t","o","r","-","p","a","c","k","a","g","e","-","a","r","c","h","i","v","e","/","t","o","r","b","r","o","w","s","e","r","/">>

COMMON_REMOVER_WORDS ==
    << <<"d","e","b","u","g">>,
       <<"D","e","b","u","g">>,
       <<"D","E","B","U","G">>,
       <<"?","C","=","N",";","O","=","D">>,
       <<"?","C","=","M",";","O","=","A">>,
       <<"?","C","=","S",";","O","=","A">>,
       <<"?","C","=","D",";","O","=","A">>,
       <<"s","h","a","2","5","6">>,
       <<"S","H","A","2","5","6">>,
       <<"S","h","a","2","5","6">>,
       <<".","a","s","c">>,
       <<".","A","S","C">>,
       <<".","A","s","c">>,
       <<".","t","x","t">>,
       <<".","T","X","T">>,
       <<".","T","x","t">>,
       <<"m","a","r","-","t","o","o","l","s">>,
       <<"g","e","c","k","o","d","r","i","v","e","r">>,
       <<"s","r","c","-">>,
       <<"/","~","s","y","s","r","q","b","/","b","u","i","l","d","s","/">>,
       <<"t","m","p",".","m","a","r">>,
       <<"i","n","d","e","x",".","h","t","m","l","%","3","f","C">>,
       <<"i","n","d","e","x",".","h","t","m","l">>,
       <<"r","e","s","u","l","t","s">>,
       <<"s","a","n","d","b","o","x","-">>,
       <<"/","t","o","r","-","p","a","c","k","a","g","e","-","a","r","c","h","i","v","e","/","t","o","r","b","r","o","w","s","e","r","/">> >>

EBV_REMOVER_WORDS ==
    << <<"b","r","o","w","s","e","r">>,
       <<"B","r","o","w","s","e","r">>,
       <<"B","R","O","W","S","E","R">> >> \o COMMON_REMOVER_WORDS

BRV_REMOVER_PREFIXES ==
    << <<"t","o","r","-","w","i","n","3","2","-">>,
       <<"t","o","r","-","e","x","p","e","r","t","-","b","u","n","d","l","e">> >>

Tiers == {"all", "export", "browser"}

(***************************************************************************)
(* The regular expressions of PATTERNS.  A page is modelled by the         *)
(* sequence of the href values of its anchors, in page order.              *)
(***************************************************************************)
\* PATTERNS[0] tried at position p of s: BASE_URL, then (\d+\.\d+\.\d+), then "/".
\* The result is [hit, group, next]: next is the position after the match.
Pattern0At(s, p) ==
    LET q1 == p + Len(BASE_URL)
        n1 == DigitRunLen(s, q1)
        q2 == q1 + n1 + 1
        n2 == DigitRunLen(s, q2)
        q3 == q2 + n2 + 1
        n3 == DigitRunLen(s, q3)
        e  == q3 + n3
    IN  IF /\ q1 - 1 <= Len(s)
           /\ SubSeq(s, p, q1 - 1) = BASE_URL
           /\ n1 > 0 /\ q2 - 1 <= Len(s) /\ s[q2 - 1] = "."
           /\ n2 > 0 /\ q3 - 1 <= Len(s) /\ s[q3 - 1] = "."
           /\ n3 > 0 /\ e <= Len(s) /\ s[e] = "/"
        THEN [hit |-> TRUE, group |-> SubSeq(s, q1, e - 1), next |-> e + 1]
        ELSE [hit |-> FALSE, group |-> << >>, next |-> p + 1]

\* re.findall(PATTERNS[0], s) from position p on
RECURSIVE Findall0(_, _)
Findall0(s, p) ==
    IF p > Len(s) THEN << >>
    ELSE LET m == Pattern0At(s, p)
         IN  IF m.hit THEN << m.group >> \o Findall0(s, m.next)
             ELSE Findall0(s, m.next)

\* PATTERNS[1] on the anchor <a href="h">: h is ([\d\.]+[a-zA-Z0-9\-\_]*) then "/"
Pattern1Matches(h) ==
    /\ Len(h) >= 2
    /\ h[Len(h)] = "/"
    /\ \E k \in 1..(Len(h) - 1) :
          /\ \A i \in 1..k : IsDigit(h[i]) \/ h[i] = "."
          /\ \A i \in (k + 1)..(Len(h) - 1) :
                IsDigit(h[i]) \/ IsLetter(h[i]) \/ h[i] = "-" \/ h[i] = "_"

\* re.findall(PATTERNS[pattern], text) for the version patterns 0 and 1, over a page
RECURSIVE FindallVersions(_, _)
FindallVersions(pattern, page) ==
    IF Len(page) = 0 THEN << >>
    ELSE LET h == page[1]
             here == IF pattern = 0 THEN Findall0(h, 1)
                     ELSE IF Pattern1Matches(h) THEN << SubSeq(h, 1, Len(h) - 1) >>
                     ELSE << >>
         IN  here \o FindallVersions(pattern, Tail(page))

\* re.findall(PATTERNS[-1], text): every anchor whose href is not empty
FindallFiles(page) == SelectSeq(page, LAMBDA h : Len(h) > 0)

(***************************************************************************)
(* The upstream archive: file names, listing pages, root pages.            *)
(***************************************************************************)
V_2_0 == <<"2",".","0">>
V_10_0 == <<"1","0",".","0">>
V_2_0_1 == <<"2",".","0",".","1">>
V_2_0a1 == <<"2",".","0","a","1">>

F_export == <<"t","o","r","-","w","i","n","3","2","-","1",".","z","i","p">>
F_browser == <<"T","o","r","B","r","o","w","s","e","r","-","o","s","x",".","d","m","g">>
F_sums == <<"s","h","a","2","5","6","s","u","m","s",".","t","x","t">>
F_linux == <<"t","o","r","-","l","i","n","u","x",".","t","g","z">>
H_sort == <<"?","C","=","N",";","O","=","D">>

\* listing pages: the hrefs of a version's directory listing
PageBoth == << H_sort, F_export, F_browser >>
PageBrowserOnly == << F_browser, F_sums >>
PageExportOnly == << F_export >>
PageNothing == << H_sort, F_sums >>
PageLinux == << F_linux, F_export >>

\* an archive: the root page and the listing page of each version directory
Worlds ==
    << [root    |-> << H_sort, V_2_0 \o <<"/">>, V_10_0 \o <<"/">>, V_2_0_1 \o <<"/">> >>,
        listing |-> (V_2_0 :> PageBoth) @@ (V_10_0 :> PageBrowserOnly)
                    @@ (V_2_0_1 :> PageNothing)],
       [root    |-> << V_10_0 \o <<"/">>, BASE_URL \o V_2_0_1 \o <<"/">>,
                       V_2_0_1 \o <<"/">>, V_2_0a1 \o <<"/">>, F_sums >>,
        listing |-> (V_10_0 :> PageExportOnly) @@ (V_2_0_1 :> PageLinux)
                    @@ (V_2_0a1 :> PageBoth)] >>

\* the body of the root page
RootPage(w) == Worlds[w].root

\* the body of the listing page of version v (an empty page for an unknown one)
ListingPage(w, v) ==
    IF v \in DOMAIN Worlds[w].listing THEN Worlds[w].listing[v] ELSE << >>

(***************************************************************************)
(* The state.                                                              *)
(***************************************************************************)
VARIABLES
    world,               \* the upstream archive (an index into Worlds)
    cache,               \* CACHE_*_DIR: tier -> (version -> document)
    blanks,              \* BLANKS (blanks.json), as a set
    versions_list,       \* VERSIONS_LIST (versions_list.json)
    e_versions,          \* E_VERSIONS
    b_versions,          \* B_VERSIONS
    e_grouped,           \* E_VERSIONS_GROUPED
    b_grouped,           \* B_VERSIONS_GROUPED
    le_versions,         \* LE_VERSIONS
    lb_versions,         \* LB_VERSIONS
    pc,                  \* "idle" (no run in progress), "crawl", "build"
    exit_code,           \* the exit codes of the runs that ended, as << >> or << code of the last >>
    blank_list,          \* blank_list, loaded at start-up
    versions,            \* versions, the list being processed
    count,               \* the loop counter of process_versions_efficiently
    export_blank_list,   \* the export blank accumulator
    browser_blank_list,  \* the browser blank accumulator
    fetch_log,           \* versions whose listing was requested in this run
    write_log,           \* <<tier, version>> of the cache writes of this run
    visit_log,           \* [version, path, raised] of the versions visited
    run,                 \* the number of runs started
    faults,              \* the number of failed fetches and writes so far
    latest_in,           \* get_latest_version alone: its argument
    latest_out,          \* get_latest_version alone: its result
    grouped_call,        \* version_grouped alone: its argument and result
    binary_call,         \* extract_version alone: its argument, environment and result
    request_call,        \* safe_request alone: the responses and what it did
    SYSTEM,              \* platform.system().lower() of the host of the inspector scripts
    OS_FILTER,           \* the environment variable OS_FILTER, lower-cased
    inspect_log,         \* what the inspector passes did, one record per pass
    le_file              \* latest_export_versions.json is "absent", "malformed" or "json"

disk == << cache, blanks, versions_list, e_versions, b_versions,
           e_grouped, b_grouped, le_versions, lb_versions >>

locals == << blank_list, versions, count, export_blank_list, browser_blank_list >>

logs == << fetch_log, write_log, visit_log >>

pure == << latest_in, latest_out, grouped_call, binary_call, request_call >>

inspector == << SYSTEM, OS_FILTER, inspect_log, le_file >>

vars == << world, disk, pc, exit_code, locals, logs, run, faults, pure, inspector >>

\* json value None
None == << "None" >>

\* the {} that lines 281-284 write into a document that does not exist yet
EmptyObject == << >>

\* the state after the initialisation block (lines 267-295) on an empty data directory
FreshStart ==
    /\ cache = [t \in Tiers |-> << >>]
    /\ blanks = {}
    /\ versions_list = << >>
    /\ e_versions = << >>
    /\ b_versions = << >>
    /\ e_grouped = EmptyObject
    /\ b_grouped = EmptyObject
    /\ le_versions = EmptyObject
    /\ lb_versions = EmptyObject
    /\ pc = "idle"
    /\ exit_code = << >>
    /\ blank_list = {}
    /\ versions = << >>
    /\ count = 1
    /\ export_blank_list = << >>
    /\ browser_blank_list = << >>
    /\ fetch_log = << >>
    /\ write_log = << >>
    /\ visit_log = << >>
    /\ run = 0
    /\ faults = 0

\* a function that has not been called
NoCall == [done |-> FALSE]

\* no inspector script has run
NoInspector ==
    /\ SYSTEM = "linux"
    /\ OS_FILTER = << >>
    /\ inspect_log = << >>
    /\ le_file = "json"

Init ==
    /\ world \in 1..Len(Worlds)
    /\ FreshStart
    /\ latest_in = << >>
    /\ latest_out = << >>
    /\ grouped_call = NoCall
    /\ binary_call = NoCall
    /\ request_call = NoCall
    /\ NoInspector

(***************************************************************************)
(* The cache store: one JSON document per (tier, version).                 *)
(***************************************************************************)
JsonSuffix == <<".","j","s","o","n">>

\* the file name of the tier document of a version: f"/{version}.json"
CacheFile(v) == v \o JsonSuffix

\* name.replace(old, "") from position p on: every occurrence removed, left to right
RECURSIVE RemoveAll(_, _, _)
RemoveAll(name, old, p) ==
    IF p > Len(name) THEN << >>
    ELSE IF p + Len(old) - 1 <= Len(name) /\ SubSeq(name, p, p + Len(old) - 1) = old
         THEN RemoveAll(name, old, p + Len(old))
         ELSE << name[p] >> \o RemoveAll(name, old, p + 1)

\* a document holding a JSON list of file names
Doc(files) == [valid |-> TRUE, files |-> files]

\* a document a failed write left behind: not valid JSON
Truncated == [valid |-> FALSE, files |-> << >>]

\* os.path.exists of the tier document of v
Exists(c, tier, v) == CacheFile(v) \in DOMAIN c[tier]

\* the outcomes of: with open(path, "w") as file: json.dump(files, file)
WriteOutcomes == {"ok", "denied", "truncated"}

WriteFile(c, tier, v, files, outcome) ==
    CASE outcome = "ok"        -> [c EXCEPT ![tier] = (CacheFile(v) :> Doc(files)) @@ @]
      [] outcome = "truncated" -> [c EXCEPT ![tier] = (CacheFile(v) :> Truncated) @@ @]
      [] outcome = "denied"    -> c

\* the entry the write adds to the write log (none when open() raised)
WriteTrace(tier, v, outcome) ==
    IF outcome = "denied" THEN << >> ELSE << << tier, v >> >>

(***************************************************************************)
(* process_versions_efficiently: the body of the loop for one version.     *)
(* st is [cache, ebl, bbl, fetched, wrote, used]; ch names the outcome of  *)
(* the fetch and of each write, used the slots of ch that were consumed.   *)
(***************************************************************************)
\* mutant: the handler records the version in the export accumulator only
OnException_ExportOnly(st, v) == [st EXCEPT !.ebl = Append(@, v)]

\* lines 215-219: the handler of any exception raised in the loop body
OnException(st, v) ==
    [st EXCEPT !.ebl = Append(@, v), !.bbl = Append(@, v)]

\* mutant: the skip of line 141-143 is missing
AlreadyProcessed_Dropped(c, v) == FALSE

\* line 141
AlreadyProcessed(c, v) == Exists(c, "export", v) /\ Exists(c, "browser", v)

\* mutant: line 152 consults the accumulator of the run, not the loaded list
InBlankList_Accumulator(v) == v \in Range(export_blank_list)

\* line 152
InBlankList(v) == v \in blank_list

\* lines 165-168
CommonFilter(files) ==
    SelectSeq(files, LAMBDA f : ~AnyWordIn(COMMON_REMOVER_WORDS, f))

\* mutant: the export tier strips the common words only
ExportFilter_CommonOnly(files) ==
    SelectSeq(files, LAMBDA f : ~AnyWordIn(COMMON_REMOVER_WORDS, f))

\* lines 183-187
ExportFilter(files) ==
    SelectSeq(files, LAMBDA f : ~AnyWordIn(EBV_REMOVER_WORDS, f))

\* lines 198-202
BrowserFilter(files) ==
    SelectSeq(files, LAMBDA f : ~AnyPrefixOf(BRV_REMOVER_PREFIXES, f))

\* mutant: the listing is requested whatever the cache and the blank list hold
Source_NetworkAlways(c, v) == "network"

\* mutant: the blank list is consulted before the all tier
Source_BlankFirst(c, v) ==
    IF InBlankList(v) THEN "blank"
    ELSE IF Exists(c, "all", v) THEN "cache"
    ELSE "network"

\* lines 147, 151-152 and 158: where the raw file list of v is taken from
Source(c, v) ==
    IF Exists(c, "all", v) THEN "cache"
    ELSE IF InBlankList(v) THEN "blank"
    ELSE "network"

\* lines 146-178: the raw file list, from the all tier or from the network
AcquireFiles(st, v, ch) ==
    IF Source(st.cache, v) = "cache"
    THEN LET d == st.cache["all"][CacheFile(v)]
         IN  IF d.valid
             THEN [st |-> st, done |-> FALSE, raised |-> FALSE,
                   path |-> "cached", files |-> d.files]
             ELSE [st |-> OnException(st, v), done |-> TRUE, raised |-> TRUE,
                   path |-> "unreadable", files |-> << >>]
    ELSE IF Source(st.cache, v) = "blank"
    THEN [st |-> [st EXCEPT !.ebl = Append(@, v), !.bbl = Append(@, v)],
          done |-> TRUE, raised |-> FALSE, path |-> "blank_listed", files |-> << >>]
    ELSE LET st1 == [st EXCEPT !.fetched = Append(@, v), !.used = @ \cup {"fetch"}]
         IN  IF ch.fetch = "fail"
             THEN [st |-> OnException(st1, v), done |-> TRUE, raised |-> TRUE,
                   path |-> "fetch_failed", files |-> << >>]
             ELSE LET cached_files == CommonFilter(FindallFiles(ListingPage(world, v)))
                      st2 == [st1 EXCEPT
                                !.cache = WriteFile(@, "all", v, cached_files, ch.w_all),
                                !.wrote = @ \o WriteTrace("all", v, ch.w_all),
                                !.used = @ \cup {"w_all"}]
                  IN  IF Len(cached_files) = 0
                      THEN [st |-> [st1 EXCEPT !.ebl = Append(@, v), !.bbl = Append(@, v)],
                            done |-> TRUE, raised |-> FALSE,
                            path |-> "no_files", files |-> << >>]
                      ELSE IF ch.w_all = "ok"
                      THEN [st |-> st2, done |-> FALSE, raised |-> FALSE,
                            path |-> "fetched", files |-> cached_files]
                      ELSE [st |-> OnException(st2, v), done |-> TRUE, raised |-> TRUE,
                            path |-> "write_failed", files |-> << >>]

\* mutant: lines 182 and 197 do not test whether the tier document exists
PartitionStep_Rewrites(st, v, ch, tier, slot, tier_files) ==
    IF Len(tier_files) > 0
    THEN LET st1 == [st EXCEPT
                       !.cache = WriteFile(@, tier, v, tier_files, ch[slot]),
                       !.wrote = @ \o WriteTrace(tier, v, ch[slot]),
                       !.used = @ \cup {slot}]
         IN  IF ch[slot] = "ok"
             THEN [st |-> st1, done |-> FALSE, raised |-> FALSE, files |-> tier_files]
             ELSE [st |-> OnException(st1, v), done |-> TRUE, raised |-> TRUE,
                   files |-> << >>]
    ELSE [st |-> IF tier = "export" THEN [st EXCEPT !.ebl = Append(@, v)]
                 ELSE [st EXCEPT !.bbl = Append(@, v)],
          done |-> FALSE, raised |-> FALSE, files |-> << >>]

\* mutant: lines 188 and 203 do not test whether the filtered list is empty
PartitionStep_WritesEmpty(st, v, ch, tier, slot, tier_files) ==
    IF Exists(st.cache, tier, v)
    THEN [st |-> st, done |-> FALSE, raised |-> FALSE, files |-> << >>]
    ELSE LET st1 == [st EXCEPT
                       !.cache = WriteFile(@, tier, v, tier_files, ch[slot]),
                       !.wrote = @ \o WriteTrace(tier, v, ch[slot]),
                       !.used = @ \cup {slot}]
         IN  IF ch[slot] = "ok"
             THEN [st |-> st1, done |-> FALSE, raised |-> FALSE, files |-> tier_files]
             ELSE [st |-> OnException(st1, v), done |-> TRUE, raised |-> TRUE,
                   files |-> << >>]

\* lines 181-193 (tier "export", slot "w_export") and 196-208 ("browser", "w_browser")
PartitionStep(st, v, ch, tier, slot, tier_files) ==
    IF Exists(st.cache, tier, v)
    THEN [st |-> st, done |-> FALSE, raised |-> FALSE, files |-> << >>]
    ELSE IF Len(tier_files) > 0
    THEN LET st1 == [st EXCEPT
                       !.cache = WriteFile(@, tier, v, tier_files, ch[slot]),
                       !.wrote = @ \o WriteTrace(tier, v, ch[slot]),
                       !.used = @ \cup {slot}]
         IN  IF ch[slot] = "ok"
             THEN [st |-> st1, done |-> FALSE, raised |-> FALSE, files |-> tier_files]
             ELSE [st |-> OnException(st1, v), done |-> TRUE, raised |-> TRUE,
                   files |-> << >>]
    ELSE [st |-> IF tier = "export" THEN [st EXCEPT !.ebl = Append(@, v)]
                 ELSE [st EXCEPT !.bbl = Append(@, v)],
          done |-> FALSE, raised |-> FALSE, files |-> << >>]

\* lines 211-212: json.load of an existing tier document whose list was not computed
CountRaises(c, v, tier, tier_files) ==
    /\ Len(tier_files) = 0
    /\ Exists(c, tier, v)
    /\ ~c[tier][CacheFile(v)].valid

\* lines 132-219: what a pass leaves, given the results a of lines 146-178, e of
\* lines 181-193 and b of lines 196-208; [st, raised, path]
PassResult(v, a, e, b) ==
    IF a.done THEN [st |-> a.st, raised |-> a.raised, path |-> a.path]
    ELSE IF e.done THEN [st |-> e.st, raised |-> TRUE, path |-> "write_failed"]
    ELSE IF b.done THEN [st |-> b.st, raised |-> TRUE, path |-> "write_failed"]
    ELSE IF \/ CountRaises(b.st.cache, v, "export", e.files)
            \/ CountRaises(b.st.cache, v, "browser", b.files)
    THEN [st |-> OnException(b.st, v), raised |-> TRUE, path |-> "unreadable"]
    ELSE [st |-> b.st, raised |-> FALSE, path |-> a.path]

\* lines 132-219: the loop body for version v; [st, raised, path].  The three
\* stages run one after the other, each on the state the one before left.
ProcessVersion(st, v, ch) ==
    IF AlreadyProcessed(st.cache, v)
    THEN [st |-> st, raised |-> FALSE, path |-> "processed"]
    ELSE CHOOSE r \in
            UNION { UNION { { PassResult(v, a, e, b) :
                b \in {PartitionStep(e.st, v, ch, "browser", "w_browser",
                                     BrowserFilter(a.files))} } :
                e \in {PartitionStep(a.st, v, ch, "export", "w_export",
                                     ExportFilter(a.files))} } :
                a \in {AcquireFiles(st, v, ch)} } : TRUE

(***************************************************************************)
(* The catalog builder.                                                    *)
(***************************************************************************)
\* lines 96, 122, 262 and 314: sort by the numeric key, keeping the order of ties
\* the items paired with their keys: key=lambda x: ...(x["version"]) of catalog
\* entries (by_field) or key=lambda s: ...(s) of version strings
RECURSIVE WithKeys(_, _)
WithKeys(items, by_field) ==
    IF Len(items) = 0 THEN << >>
    ELSE << [key |-> VersionKey(IF by_field THEN items[1].version ELSE items[1]),
             val |-> items[1]] >>
         \o WithKeys(Tail(items), by_field)

RECURSIVE Values(_)
Values(keyed) ==
    IF Len(keyed) = 0 THEN << >> ELSE << keyed[1].val >> \o Values(Tail(keyed))

SortByVersion(items, by_field) == Values(StableSort(WithKeys(items, by_field)))

\* mutant: line 88 leaves the version out of the url
FileEntries_UrlWithoutVersion(version_number, files) ==
    [i \in 1..Len(files) |-> [file_name |-> files[i], url |-> BASE_URL \o files[i]]]

\* lines 86-89: the catalog entry of one tier document
RECURSIVE FileEntries(_, _)
FileEntries(version_number, files) ==
    IF Len(files) = 0 THEN << >>
    ELSE << [file_name |-> files[1],
             url       |-> BASE_URL \o version_number \o <<"/">> \o files[1]] >>
         \o FileEntries(version_number, Tail(files))

VersionData(version_number, files) ==
    [version |-> version_number, files |-> FileEntries(version_number, files)]

\* lines 81-93 and 107-119: the entries of the readable documents, in listdir order
RECURSIVE CatalogEntries(_, _)
CatalogEntries(dir, cache_files) ==
    IF Len(cache_files) = 0 THEN << >>
    ELSE LET version_file == cache_files[1]
             version_number == RemoveAll(version_file, JsonSuffix, 1)
             rest == CatalogEntries(dir, Tail(cache_files))
         IN  IF dir[version_file].valid
             THEN << VersionData(version_number, dir[version_file].files) >> \o rest
             ELSE rest

\* lines 79 and 105: the names of the directory that end with ".json"
JsonFiles(dir) ==
    {f \in DOMAIN dir :
        Len(f) >= Len(JsonSuffix)
        /\ SubSeq(f, Len(f) - Len(JsonSuffix) + 1, Len(f)) = JsonSuffix}

\* build_export_versions, given the order in which os.listdir names the files
build_export_versions(cache_files) ==
    SortByVersion(CatalogEntries(cache["export"], cache_files), TRUE)

\* build_browser_versions, given the order in which os.listdir names the files
build_browser_versions(cache_files) ==
    SortByVersion(CatalogEntries(cache["browser"], cache_files), TRUE)

Platforms == <<"windows", "macos", "linux", "android", "other">>

\* mutant: the macos keywords are tested before the windows keywords
PlatformOf_MacFirst(file) ==
    LET file_name == ToLower(file.file_name)
    IN  IF AnyWordIn(<< <<"m","a","c">>, <<"o","s","x">>, <<"d","a","r","w","i","n">> >>, file_name) THEN "macos"
        ELSE IF AnyWordIn(<< <<"w","i","n">>, <<"w","i","n","d","o","w","s">> >>, file_name) THEN "windows"
        ELSE IF Contains(<<"l","i","n","u","x">>, file_name) THEN "linux"
        ELSE IF Contains(<<"a","n","d","r","o","i","d">>, file_name) THEN "android"
        ELSE "other"

\* lines 236-247: the bucket of one file
PlatformOf(file) ==
    LET file_name == ToLower(file.file_name)
    IN  IF AnyWordIn(<< <<"w","i","n">>, <<"w","i","n","d","o","w","s">> >>, file_name)
        THEN "windows"
        ELSE IF AnyWordIn(<< <<"m","a","c">>, <<"o","s","x">>,
                             <<"d","a","r","w","i","n">> >>, file_name)
        THEN "macos"
        ELSE IF Contains(<<"l","i","n","u","x">>, file_name) THEN "linux"
        ELSE IF Contains(<<"a","n","d","r","o","i","d">>, file_name) THEN "android"
        ELSE "other"

\* the files of all entries, in catalog order
RECURSIVE AllFiles(_)
AllFiles(data) ==
    IF Len(data) = 0 THEN << >> ELSE data[1].files \o AllFiles(Tail(data))

\* lines 235-247: each file is appended to its bucket
RECURSIVE GroupFiles(_, _)
GroupFiles(files, grouped) ==
    IF Len(files) = 0 THEN grouped
    ELSE GroupFiles(Tail(files),
                    [grouped EXCEPT ![PlatformOf(files[1])] = Append(@, files[1])])

version_grouped(data) ==
    GroupFiles(AllFiles(data), [p \in Range(Platforms) |-> << >>])

\* mutant: the pattern lacks its final $, so a numeric prefix is enough
IsNumericalOnly_Prefix(s) == Len(s) > 0 /\ IsDigit(s[1])

\* re.match(r'^\d+(\.\d+)*$', s)
IsNumericalOnly(s) ==
    /\ Len(s) > 0
    /\ \A i \in 1..Len(s) : IsDigit(s[i]) \/ s[i] = "."
    /\ IsDigit(s[1])
    /\ IsDigit(s[Len(s)])
    /\ \A i \in 1..(Len(s) - 1) : ~(s[i] = "." /\ s[i + 1] = ".")

NoVersion == [version |-> None, files |-> << >>]

get_latest_version(data) ==
    LET numerical_only == SelectSeq(data, LAMBDA entry : IsNumericalOnly(entry.version))
        sorted_data == SortByVersion(numerical_only, TRUE)
    IN  IF Len(data) = 0 THEN NoVersion
        ELSE IF Len(numerical_only) = 0 THEN NoVersion
        ELSE sorted_data[Len(sorted_data)]

(***************************************************************************)
(* The steps of a run of main.py.                                          *)
(***************************************************************************)
\* lines 309-311: the matches of every pattern but the last, in pattern order
FoundVersions(page) == FindallVersions(0, page) \o FindallVersions(1, page)

\* mutant: the list is persisted without line 314
SortVersions_Unsorted(unique_versions) == unique_versions

\* line 314, on list(set(versions)) given in the set's iteration order
SortVersions(unique_versions) == SortByVersion(unique_versions, FALSE)

\* mutant: line 377 leaves out the list loaded at start-up
CombinedBlanks_NewOnly ==
    Range(export_blank_list) \cup Range(browser_blank_list)

\* line 377
CombinedBlanks ==
    blank_list \cup Range(export_blank_list) \cup Range(browser_blank_list)

\* lines 298-334: the blank list is loaded, the root page fetched and the version
\* list built, persisted and loaded again
Discover ==
    /\ pc = "idle"
    /\ run < MaxRuns
    /\ \E order \in Orders(Range(FoundVersions(RootPage(world)))) :
          /\ versions_list' = SortVersions(order)
          /\ versions' = SortVersions(order)
          /\ pc' = IF Len(order) = 0 THEN "build" ELSE "crawl"
    /\ blank_list' = blanks
    /\ count' = 1
    /\ export_blank_list' = << >>
    /\ browser_blank_list' = << >>
    /\ fetch_log' = << >>
    /\ write_log' = << >>
    /\ visit_log' = << >>
    /\ run' = run + 1
    /\ UNCHANGED << world, cache, blanks, e_versions, b_versions, e_grouped,
                    b_grouped, le_versions, lb_versions, exit_code, faults, pure, inspector >>

\* lines 298-324 when safe_request raises on the root page: exit(1)
DiscoverFails ==
    /\ pc = "idle"
    /\ run < MaxRuns
    /\ faults < MaxFaults
    /\ faults' = faults + 1
    /\ blank_list' = blanks
    /\ versions' = << >>
    /\ count' = 1
    /\ export_blank_list' = << >>
    /\ browser_blank_list' = << >>
    /\ fetch_log' = << >>
    /\ write_log' = << >>
    /\ visit_log' = << >>
    /\ run' = run + 1
    /\ exit_code' = << 1 >>
    /\ UNCHANGED << world, disk, pc, pure, inspector >>

Slots == {"fetch", "w_all", "w_export", "w_browser"}

FaultsOf(ch) == Cardinality({s \in Slots : ch[s] # "ok"})

NoFault ==
    [fetch |-> "ok", w_all |-> "ok", w_export |-> "ok", w_browser |-> "ok"]

\* what the environment decides in one pass of the loop body: the outcome of the
\* fetch and of each write.  The first failure raises and ends the pass, so no
\* pass meets two.
Choices ==
    {NoFault, [NoFault EXCEPT !.fetch = "fail"]}
    \cup {[NoFault EXCEPT ![s] = o] :
             s \in {"w_all", "w_export", "w_browser"}, o \in WriteOutcomes}

\* lines 132-219: one pass of the loop of process_versions_efficiently
Visit ==
    /\ pc = "crawl"
    /\ \E ch \in Choices :
          LET version == versions[count]
              st0 == [cache |-> cache, ebl |-> export_blank_list,
                      bbl |-> browser_blank_list, fetched |-> << >>,
                      wrote |-> << >>, used |-> {}]
          IN  \E r \in {ProcessVersion(st0, version, ch)} :
              /\ faults + FaultsOf(ch) <= MaxFaults
              /\ \A s \in Slots \ r.st.used : ch[s] = "ok"
              /\ faults' = faults + FaultsOf(ch)
              /\ cache' = r.st.cache
              /\ export_blank_list' = r.st.ebl
              /\ browser_blank_list' = r.st.bbl
              /\ fetch_log' = fetch_log \o r.st.fetched
              /\ write_log' = write_log \o r.st.wrote
              /\ visit_log' = Append(visit_log,
                    [version |-> version, path |-> r.path, raised |-> r.raised])
    /\ count' = count + 1
    /\ pc' = IF count = Len(versions) THEN "build" ELSE "crawl"
    /\ UNCHANGED << world, blanks, versions_list, e_versions, b_versions, e_grouped,
                    b_grouped, le_versions, lb_versions, exit_code, blank_list,
                    versions, run, pure, inspector >>

\* lines 336-391: the catalogs are built from the cache and every document written
Build ==
    /\ pc = "build"
    /\ \E cache_files \in Orders(JsonFiles(cache["export"])) :
          LET export_data == build_export_versions(cache_files)
          IN  /\ e_versions' = export_data
              /\ e_grouped' = version_grouped(export_data)
              /\ le_versions' = get_latest_version(export_data)
    /\ \E cache_files \in Orders(JsonFiles(cache["browser"])) :
          LET browser_data == build_browser_versions(cache_files)
          IN  /\ b_versions' = browser_data
              /\ b_grouped' = version_grouped(browser_data)
              /\ lb_versions' = get_latest_version(browser_data)
    /\ blanks' = CombinedBlanks
    /\ pc' = "idle"
    /\ exit_code' = << 0 >>
    /\ UNCHANGED << world, cache, versions_list, locals, logs, run, faults, pure, inspector >>

Next == Discover \/ DiscoverFails \/ Visit \/ Build

Spec == Init /\ [][Next]_vars

\* between two runs the archive publishes some versions and withdraws others
Republish ==
    /\ pc = "idle"
    /\ run < MaxRuns
    /\ world < Len(Worlds)
    /\ world' = world + 1
    /\ UNCHANGED << disk, pc, exit_code, locals, logs, run, faults, pure, inspector >>

NextArchive == Next \/ Republish

\* runs of main.py against an archive that changes between them
InitArchive == Init /\ world = 1

SpecArchive == InitArchive /\ [][NextArchive]_vars

\* the for loop of line 132 goes on to its next pass: a pass of the loop body that
\* can be taken is taken
SpecLoop == Init /\ [][Next]_vars /\ WF_vars(Visit)

(***************************************************************************)
(* get_latest_version alone, on catalogs of up to MaxEntries entries.      *)
(***************************************************************************)
\* the number of entries of a catalog handed to get_latest_version
MaxEntries == 2

\* version names: numeric ones, suffixed ones, and names of digits and dots
\* that PATTERNS[1] accepts although they are no dotted numbers
LatestVersionNames ==
    { <<"2">>,
      <<"1","0">>,
      <<"2",".","1">>,
      <<"2",".","0","1">>,
      <<"1","4",".","0",".","3">>,
      <<"1","4",".","0",".","4","-","a","l","p","h","a">>,
      <<"1","1","a">>,
      <<"1","2",".">>,
      <<".",".">>,
      <<"1","3",".",".","1">> }

LatestEntries == {VersionData(v, << F_linux >>) : v \in LatestVersionNames}

LatestInputs ==
    UNION {[1..n -> LatestEntries] : n \in 0..MaxEntries}

InitLatest ==
    /\ world = 1
    /\ FreshStart
    /\ latest_in \in LatestInputs
    /\ latest_out = << >>
    /\ grouped_call = NoCall
    /\ binary_call = NoCall
    /\ request_call = NoCall
    /\ NoInspector

\* lines 250-263: get_latest_version(data); run counts the calls
Latest ==
    /\ run = 0
    /\ latest_out' = get_latest_version(latest_in)
    /\ run' = 1
    /\ UNCHANGED << world, disk, pc, exit_code, locals, logs, faults, latest_in,
                    grouped_call, binary_call, request_call, inspector >>

NextLatest == Latest

SpecLatest == InitLatest /\ [][NextLatest]_vars

(***************************************************************************)
(* version_grouped alone, on catalogs of two entries that hold up to       *)
(* MaxGroupFiles files between them.                                       *)
(***************************************************************************)
\* the number of files of a catalog handed to version_grouped
MaxGroupFiles == 2

\* file names: upper case, a keyword inside another platform's keyword, keywords
\* of two platforms, no keyword
GroupFileNames ==
    { <<"T","o","r","-","W","I","N",".","e","x","e">>, <<"t","o","r","-","d","a","r","w","i","n",".","d","m","g">>, <<"t","o","r","-","o","s","x",".","d","m","g">>,
      <<"l","i","n","u","x","-","a","n","d","r","o","i","d",".","t","g","z">>, <<"t","o","r","-","a","n","d","r","o","i","d",".","a","p","k">>, <<"t","o","r","-","s","r","c",".","t","g","z">> }

GroupFileLists ==
    UNION {[1..n -> GroupFileNames] : n \in 0..MaxGroupFiles}

\* the files shared out between an entry for 2.0 and an entry for 10.0
GroupInputs ==
    { << VersionData(V_2_0, SubSeq(files, 1, k)),
         VersionData(V_10_0, SubSeq(files, k + 1, Len(files))) >> :
        << files, k >> \in {fk \in GroupFileLists \X (0..MaxGroupFiles) : fk[2] <= Len(fk[1])} }

InitGrouped ==
    /\ world = 1
    /\ FreshStart
    /\ latest_in = << >>
    /\ latest_out = << >>
    /\ grouped_call \in {[done |-> FALSE, data |-> data] : data \in GroupInputs}
    /\ binary_call = NoCall
    /\ request_call = NoCall
    /\ NoInspector

\* lines 223-248: version_grouped(data)
Grouped ==
    /\ ~grouped_call.done
    /\ grouped_call' = [done |-> TRUE, data |-> grouped_call.data,
                        grouped |-> version_grouped(grouped_call.data)]
    /\ UNCHANGED << world, disk, pc, exit_code, locals, logs, run, faults, latest_in,
                    latest_out, binary_call, request_call, inspector >>

NextGrouped == Grouped

SpecGrouped == InitGrouped /\ [][NextGrouped]_vars

(***************************************************************************)
(* The Binary Inspector (extract_daemon_versions.py): the version of one   *)
(* extracted tor binary.  A file is [readable, bytes], its bytes decoded   *)
(* as latin-1, one character per byte.                                     *)
(***************************************************************************)
\* a character of the class [\d\.]
IsVersionChar(c) == IsDigit(c) \/ c = "."

\* the length of the longest run of [\d\.] characters of s from position p on
RECURSIVE VersionRunLen(_, _)
VersionRunLen(s, p) ==
    IF p > Len(s) \/ ~IsVersionChar(s[p]) THEN 0 ELSE 1 + VersionRunLen(s, p + 1)

\* text as the matcher compares it: lower-cased under re.IGNORECASE
Folded(text, ignorecase) == IF ignorecase THEN ToLower(text) ELSE text

\* the literal part of a pattern matches the folded text at position p
LiteralAt(literal, folded, p) ==
    /\ p + Len(literal) - 1 <= Len(folded)
    /\ SubSeq(folded, p, p + Len(literal) - 1) = literal

\* re.search(literal + r'([\d\.]+)', text): group 1 of the leftmost match, as
\* << >> (no match) or << group >>
SearchVersion(literal, text, ignorecase) ==
    LET folded == Folded(text, ignorecase)
        folded_literal == Folded(literal, ignorecase)
        hits == {p \in 1..Len(text) :
                    /\ LiteralAt(folded_literal, folded, p)
                    /\ VersionRunLen(text, p + Len(literal)) > 0}
    IN  IF hits = {} THEN << >>
        ELSE LET p == CHOOSE x \in hits : \A y \in hits : x <= y
                 start == p + Len(literal)
             IN  << SubSeq(text, start, start + VersionRunLen(text, start) - 1) >>

\* characters that \s matches
WhiteSpace == {" ", "\t", "\n", "\r"}

\* the position after the white space of s from position p on
RECURSIVE SkipSpace(_, _)
SkipSpace(s, p) ==
    IF p <= Len(s) /\ s[p] \in WhiteSpace THEN SkipSpace(s, p + 1) ELSE p

\* the position of the opening quote of VERSION\s*=\s*" matched at p, or 0
AssignmentAt(text, folded, p) ==
    IF ~LiteralAt(<<"v","e","r","s","i","o","n">>, folded, p) THEN 0
    ELSE LET eq == SkipSpace(text, p + 7)
         IN  IF eq > Len(text) \/ text[eq] # "=" THEN 0
             ELSE LET quote == SkipSpace(text, eq + 1)
                  IN  IF quote > Len(text) \/ text[quote] # "\"" THEN 0 ELSE quote

\* re.search(r'VERSION\s*=\s*"([\d\.]+)"', text, re.IGNORECASE), as SearchVersion
SearchAssignment(text) ==
    LET folded == ToLower(text)
        closed(quote) ==
            LET n == VersionRunLen(text, quote + 1)
            IN  n > 0 /\ quote + n + 1 <= Len(text) /\ text[quote + n + 1] = "\""
        hits == {p \in 1..Len(text) :
                    LET quote == AssignmentAt(text, folded, p)
                    IN  quote > 0 /\ closed(quote)}
    IN  IF hits = {} THEN << >>
        ELSE LET p == CHOOSE x \in hits : \A y \in hits : x <= y
                 start == AssignmentAt(text, folded, p) + 1
             IN  << SubSeq(text, start, start + VersionRunLen(text, start) - 1) >>

\* re.match(r'^\d+\.\d+\.\d+\.\d+$', version)
IsFourPart(version) ==
    /\ Len(version) > 0
    /\ \A i \in 1..Len(version) : IsVersionChar(version[i])
    /\ IsDigit(version[1])
    /\ IsDigit(version[Len(version)])
    /\ \A i \in 1..(Len(version) - 1) : ~(version[i] = "." /\ version[i + 1] = ".")
    /\ Cardinality({i \in 1..Len(version) : version[i] = "."}) = 3

\* lines 96-103: the first match of each pattern, in pattern order
ScanMatches(text) ==
    << SearchVersion(<<"T","o","r"," ","v","e","r","s","i","o","n"," ">>, text, TRUE),
       SearchVersion(<<"t","o","r","-">>, text, TRUE),
       SearchAssignment(text) >>

\* lines 102-112: the first match that validates, or None
FirstValid(matches) ==
    LET valid == {k \in 1..Len(matches) :
                     matches[k] # << >> /\ IsFourPart(matches[k][1])}
    IN  IF valid = {} THEN None
        ELSE matches[CHOOSE k \in valid : \A j \in valid : k <= j][1]

\* lines 85-115
extract_version_from_binary_strings(file) ==
    IF ~file.readable THEN None ELSE FirstValid(ScanMatches(file.bytes))

\* mutant: the test of line 126 looks for android only
CanExecute_AndroidOnly(tor_binary, system) ==
    LET binary_path_str == ToLower(tor_binary)
    IN  IF Contains(<<"a","n","d","r","o","i","d">>, binary_path_str) THEN FALSE
        ELSE \/ system = "linux" /\ Contains(<<"l","i","n","u","x">>, binary_path_str)
             \/ system = "windows" /\ Contains(<<"w","i","n","d","o","w","s">>, binary_path_str)
             \/ system = "darwin" /\ Contains(<<"m","a","c","o","s">>, binary_path_str)

\* lines 122-136: can_execute
CanExecute(tor_binary, system) ==
    LET binary_path_str == ToLower(tor_binary)
    IN  IF Contains(<<"a","n","d","r","o","i","d">>, binary_path_str) \/ Contains(<<"a","r","m">>, binary_path_str)
        THEN FALSE
        ELSE IF system = "linux" /\ Contains(<<"l","i","n","u","x">>, binary_path_str) THEN TRUE
        ELSE IF system = "windows" /\ Contains(<<"w","i","n","d","o","w","s">>, binary_path_str) THEN TRUE
        ELSE IF system = "darwin" /\ Contains(<<"m","a","c","o","s">>, binary_path_str) THEN TRUE
        ELSE FALSE

\* mutant: the attempt with LD_LIBRARY_PATH comes after the default one
Attempts_DefaultFirst(system) ==
    IF system = "linux" THEN << "default", "with LD_LIBRARY_PATH" >> ELSE << "default" >>

\* lines 141-152: attempts
Attempts(system) ==
    IF system = "linux" THEN << "with LD_LIBRARY_PATH", "default" >> ELSE << "default" >>

\* lines 154-193: the attempts from the k-th on; outcomes[k] is what subprocess.run
\* does in the k-th attempt: it returns output, times out or raises
RECURSIVE RunAttempts(_, _, _, _)
RunAttempts(attempts, outcomes, k, started) ==
    IF k > Len(attempts) THEN [version |-> None, started |-> started]
    ELSE LET now == Append(started, attempts[k])
             match == IF outcomes[k].kind = "output"
                      THEN SearchVersion(<<"T","o","r"," ","v","e","r","s","i","o","n"," ">>, outcomes[k].output, FALSE)
                      ELSE << >>
         IN  IF match # << >> THEN [version |-> match[1], started |-> now]
             ELSE RunAttempts(attempts, outcomes, k + 1, now)

\* lines 186 and 195-199: the version an attempt printed, or else the one
\* found in the bytes
ExecutedOrScanned(exec, file) ==
    IF exec.version # None
    THEN [version |-> exec.version, started |-> exec.started, scanned |-> FALSE]
    ELSE [version |-> extract_version_from_binary_strings(file),
          started |-> exec.started, scanned |-> TRUE]

\* lines 117-199; started lists the processes started, scanned tells whether the
\* bytes of the file were searched
extract_version(tor_binary, file, system, outcomes) ==
    ExecutedOrScanned(IF CanExecute(tor_binary, system)
                      THEN RunAttempts(Attempts(system), outcomes, 1, << >>)
                      ELSE [version |-> None, started |-> << >>],
                      file)

(***************************************************************************)
(* extract_version and extract_version_from_binary_strings alone, on one   *)
(* binary: its path, its bytes, the host and what running it does.         *)
(***************************************************************************)
\* platform.system().lower() of the hosts
Hosts == {"linux", "windows", "darwin", "freebsd"}

\* str(tor_binary): the directory of the archive names the platform
BinaryPaths ==
    { <<"/","t","/","t","o","r","-","l","i","n","u","x","-","x","8","6","_","6","4","/","t","o","r">>, <<"/","t","/","t","o","r","-","L","i","n","u","x","-","i","6","8","6","/","t","o","r">>, <<"/","t","/","t","o","r","-","a","n","d","r","o","i","d","-","x","8","6","/","t","o","r">>,
      <<"/","t","/","t","o","r","-","l","i","n","u","x","-","a","r","m","v","7","/","t","o","r">>, <<"/","t","/","t","o","r","-","w","i","n","d","o","w","s","-","i","6","8","6","/","t","o","r",".","e","x","e">>,
      <<"/","t","/","t","o","r","-","m","a","c","o","s","-","x","8","6","_","6","4","/","t","o","r">>, <<"/","t","/","t","o","r","-","b","u","n","d","l","e","/","t","o","r">> }

\* the string of the byte-scan example
VersionString == <<"T","o","r"," ","v","e","r","s","i","o","n"," ","0",".","4",".","8",".","1","9">>

\* bytes before and after the string: none, a byte of no pattern, other matches
\* of the patterns, characters of the class [\d\.]
NoiseBefore == { << >>, <<"#">>, <<"T","o","r"," ","v","e","r","s","i","o","n"," ","1",".","2"," ">>, <<"T","O","R","-","0",".","1",".","2",".","3"," ">> }

NoiseAfter == { << >>, <<"#">>, <<".">>, <<"5">>, << "\n" >> }

BinaryBytes ==
    {before \o VersionString \o after : before \in NoiseBefore, after \in NoiseAfter}
    \cup { <<"#","t","o","r","-","0",".","4",".","7",".","1","#">>, << "V","E","R","S","I","O","N"," ","="," ","\"","0",".","4",".","6",".","2","\"" >>, <<"#">> }

BinaryFiles ==
    {[readable |-> TRUE, bytes |-> bytes] : bytes \in BinaryBytes}
    \cup {[readable |-> FALSE, bytes |-> << >>]}

\* what subprocess.run does: output with or without a version, time-out, OSError
ExecOutcomes ==
    { [kind |-> "output", output |-> VersionString \o << ".", "\n" >>],
      [kind |-> "output", output |-> <<"t","o","r",":"," ","e","r","r","o","r"," ","w","h","i","l","e"," ","l","o","a","d","i","n","g"," ","s","h","a","r","e","d"," ","l","i","b","r","a","r","i","e","s">>],
      [kind |-> "timeout", output |-> << >>],
      [kind |-> "oserror", output |-> << >>] }

InitBinary ==
    /\ world = 1
    /\ FreshStart
    /\ latest_in = << >>
    /\ latest_out = << >>
    /\ grouped_call = NoCall
    /\ binary_call \in {[done |-> FALSE, tor_binary |-> tor_binary, file |-> file] :
                           tor_binary \in BinaryPaths, file \in BinaryFiles}
    /\ request_call = NoCall
    /\ SYSTEM \in Hosts
    /\ OS_FILTER = << >>
    /\ inspect_log = << >>
    /\ le_file = "json"

\* what the processes that extract_version starts for tor_binary can do, one
\* outcome per attempt
ExecChoices(tor_binary, system) ==
    IF CanExecute(tor_binary, system)
    THEN [1..Len(Attempts(system)) -> ExecOutcomes]
    ELSE {<< >>}

\* lines 117-199: extract_version(tor_binary)
ExtractVersion ==
    /\ ~binary_call.done
    /\ \E outcomes \in ExecChoices(binary_call.tor_binary, SYSTEM) :
          binary_call' = [done |-> TRUE, function |-> "extract_version",
                          tor_binary |-> binary_call.tor_binary,
                          file |-> binary_call.file, outcomes |-> outcomes,
                          result |-> extract_version(binary_call.tor_binary,
                                                     binary_call.file, SYSTEM, outcomes)]
    /\ UNCHANGED << world, disk, pc, exit_code, locals, logs, run, faults, latest_in,
                    latest_out, grouped_call, request_call, inspector >>

\* lines 85-115: extract_version_from_binary_strings(tor_binary)
ScanStrings ==
    /\ ~binary_call.done
    /\ binary_call' = [done |-> TRUE, function |-> "extract_version_from_binary_strings",
                       tor_binary |-> binary_call.tor_binary,
                       file |-> binary_call.file, outcomes |-> << >>,
                       result |-> [version |-> extract_version_from_binary_strings(binary_call.file),
                                   started |-> << >>, scanned |-> TRUE]]
    /\ UNCHANGED << world, disk, pc, exit_code, locals, logs, run, faults, latest_in,
                    latest_out, grouped_call, request_call, inspector >>

NextBinary == ExtractVersion \/ ScanStrings

SpecBinary == InitBinary /\ [][NextBinary]_vars

(***************************************************************************)
(* The Binary Inspector scripts: one pass of main() over the file entries  *)
(* of latest_export_versions.json.  What the network, the archives and the *)
(* binaries do for an entry is an outcome                                  *)
(*   [download, extract, found, file, exec]                                *)
(* download and extract tell whether urlretrieve and tarfile succeed,      *)
(* found whether a tor binary is located, file is the binary and exec what *)
(* the processes started on it do.  A pass yields the entries, the count   *)
(* of updated entries and one event per entry                              *)
(*   [file_name, skipped, downloads, extracted, started, result]           *)
(* downloads counts the calls of urlretrieve, started lists the processes  *)
(* and result is what process_binary returned.                             *)
(***************************************************************************)
\* 'key in file_info and file_info[key]'
HasValue(file_info, key) == key \in DOMAIN file_info /\ Len(file_info[key]) > 0

\* file_info[key] = value
SetField(file_info, key, value) ==
    [k \in DOMAIN file_info \cup {key} |-> IF k = key THEN value ELSE file_info[k]]

\* data.get('files', [])
FilesOf(data) == IF DOMAIN data = {} THEN << >> ELSE data.files

\* hashlib.sha256 and hashlib.md5 of the bytes of a file, as hex digests
Sha256Hex(file) == <<"s","h","a","2","5","6",":">> \o file.bytes

Md5Hex(file) == <<"m","d","5",":">> \o file.bytes

\* lines 71-83 of extract_daemon_versions.py
calculate_binary_hash(file) == IF file.readable THEN Sha256Hex(file) ELSE None

\* lines 92-114 of calculate_binary_hashes.py, as << >> ({}) or << hashes >>
calculate_hashes(file) ==
    IF file.readable THEN << [md5 |-> Md5Hex(file), sha256 |-> Sha256Hex(file)] >>
    ELSE << >>

\* mutant: the tests of lines 209 and 271 are left out
FilteredOut_Never(file_name, os_filter) == FALSE

\* lines 209 and 271: OS_FILTER and OS_FILTER not in file_name.lower()
FilteredOut(file_name, os_filter) ==
    Len(os_filter) > 0 /\ ~Contains(os_filter, ToLower(file_name))

\* the suffix that process_binary removes from the name of the archive
TarGzSuffix == <<".","t","a","r",".","g","z">>

\* the path of the binary found under temp_dir / file_name.replace('.tar.gz', '')
BinaryPath(file_name) ==
    <<"/","t","/">> \o RemoveAll(file_name, TarGzSuffix, 1) \o <<"/","e","x","t","r","a","c","t","e","d","/","t","o","r","/","t","o","r">>

\* an entry of which nothing was done
NoEvent(file_name) ==
    [file_name |-> file_name, skipped |-> TRUE, downloads |-> 0, extracted |-> FALSE,
     started |-> << >>, result |-> << >>]

\* line 240: the version and the hash, and the processes that were started
VersionAndHash(event, binary_hash, version) ==
    [result |-> << [version |-> version.version, hash |-> binary_hash] >>,
     event |-> [event EXCEPT !.downloads = 1, !.extracted = TRUE,
                             !.started = version.started]]

\* lines 201-240 of extract_daemon_versions.py: process_binary; the result is
\* << >> (None) or << [version, hash] >>
process_binary(file_info, system, os_filter, o) ==
    LET file_name == file_info.file_name
        event == [NoEvent(file_name) EXCEPT !.skipped = FALSE]
    IN  IF FilteredOut(file_name, os_filter)
        THEN [result |-> << >>, event |-> event]
        ELSE IF ~o.download
        THEN [result |-> << >>, event |-> [event EXCEPT !.downloads = 1]]
        ELSE IF ~o.extract
        THEN [result |-> << >>, event |-> [event EXCEPT !.downloads = 1]]
        ELSE IF ~o.found
        THEN [result |-> << >>,
              event |-> [event EXCEPT !.downloads = 1, !.extracted = TRUE]]
        ELSE VersionAndHash(event, calculate_binary_hash(o.file),
                 extract_version(BinaryPath(file_name), o.file, system, o.exec))

\* lines 275: the entry already has a daemon version
HasDaemonVersion(file_info) ==
    /\ HasValue(file_info, "daemon_version")
    /\ ~StartsWith(file_info.daemon_version, <<"E","r","r","o","r">>)

\* mutant: a failure is recorded on the entry as its version
DaemonUpdate_RecordsError(file_info, result) ==
    IF result = << >>
    THEN [file_info |-> SetField(file_info, "daemon_version", <<"E","r","r","o","r",":"," ","f","a","i","l","e","d">>), updated |-> 1]
    ELSE LET with_version == IF result[1].version # None
                             THEN SetField(file_info, "daemon_version", result[1].version)
                             ELSE file_info
             with_hash == IF result[1].hash # None
                          THEN SetField(with_version, "daemon_hash", result[1].hash)
                          ELSE with_version
         IN  [file_info |-> with_hash, updated |-> 1]

\* lines 282-289 of extract_daemon_versions.py
DaemonUpdate(file_info, result) ==
    IF result = << >> THEN [file_info |-> file_info, updated |-> 0]
    ELSE LET with_version == IF result[1].version # None
                             THEN SetField(file_info, "daemon_version", result[1].version)
                             ELSE file_info
             with_hash == IF result[1].hash # None
                          THEN SetField(with_version, "daemon_hash", result[1].hash)
                          ELSE with_version
         IN  [file_info |-> with_hash, updated |-> 1]

\* mutant: the test of line 275 is left out
DaemonSkips_Never(file_info, os_filter) == FilteredOut(file_info.file_name, os_filter)

\* lines 270-277 of extract_daemon_versions.py: the entry is passed over
DaemonSkips(file_info, os_filter) ==
    FilteredOut(file_info.file_name, os_filter) \/ HasDaemonVersion(file_info)

\* the loop after an entry was processed: the entry as updated, the count
\* and what was done
Processed(acc, update, done) ==
    [files |-> Append(acc.files, update.file_info),
     updated_count |-> acc.updated_count + update.updated,
     events |-> Append(acc.events, [done.event EXCEPT !.result = done.result])]

\* lines 280-289 of extract_daemon_versions.py
DaemonProcessed(acc, file_info, done) ==
    Processed(acc, DaemonUpdate(file_info, done.result), done)

\* lines 267-289 of extract_daemon_versions.py: the loop from the k-th entry on
RECURSIVE DaemonEntries(_, _, _, _, _, _)
DaemonEntries(files, k, system, os_filter, outcomes, acc) ==
    IF k > Len(files) THEN acc
    ELSE LET file_info == files[k]
         IN  IF DaemonSkips(file_info, os_filter)
             THEN DaemonEntries(files, k + 1, system, os_filter, outcomes,
                      [acc EXCEPT !.files = Append(@, file_info),
                                  !.events = Append(@, NoEvent(file_info.file_name))])
             ELSE DaemonEntries(files, k + 1, system, os_filter, outcomes,
                      DaemonProcessed(acc, file_info,
                          process_binary(file_info, system, os_filter, outcomes[k])))

\* lines 116-145 of calculate_binary_hashes.py: process_binary; the result is
\* << >> ({}) or << hashes >>
process_binary_hashes(file_info, o) ==
    LET event == [NoEvent(file_info.file_name) EXCEPT !.skipped = FALSE, !.downloads = 1]
    IN  IF ~o.download \/ ~o.extract THEN [result |-> << >>, event |-> event]
        ELSE IF ~o.found
        THEN [result |-> << >>, event |-> [event EXCEPT !.extracted = TRUE]]
        ELSE [result |-> calculate_hashes(o.file),
              event |-> [event EXCEPT !.extracted = TRUE]]

\* lines 171-176 of calculate_binary_hashes.py: the entry is passed over
HashesSkips(file_info) ==
    HasValue(file_info, "binary_md5") /\ HasValue(file_info, "binary_sha256")

\* lines 181-188 of calculate_binary_hashes.py
HashesUpdate(file_info, hashes) ==
    IF hashes = << >> THEN [file_info |-> file_info, updated |-> 0]
    ELSE [file_info |-> SetField(SetField(file_info, "binary_md5", hashes[1].md5),
                                 "binary_sha256", hashes[1].sha256),
          updated |-> 1]

\* lines 179-188 of calculate_binary_hashes.py
HashesProcessed(acc, file_info, done) ==
    Processed(acc, HashesUpdate(file_info, done.result), done)

\* lines 167-188 of calculate_binary_hashes.py: the loop from the k-th entry on
RECURSIVE HashesEntries(_, _, _, _)
HashesEntries(files, k, outcomes, acc) ==
    IF k > Len(files) THEN acc
    ELSE LET file_info == files[k]
         IN  IF HashesSkips(file_info)
             THEN HashesEntries(files, k + 1, outcomes,
                      [acc EXCEPT !.files = Append(@, file_info),
                                  !.events = Append(@, NoEvent(file_info.file_name))])
             ELSE HashesEntries(files, k + 1, outcomes,
                      HashesProcessed(acc, file_info,
                          process_binary_hashes(file_info, outcomes[k])))

\* the state of a loop before its first entry
NoEntries == [files |-> << >>, updated_count |-> 0, events |-> << >>]

(***************************************************************************)
(* The passes as steps.  A pass appends to inspect_log                     *)
(*   [script, exit, events, updated_count, wrote]                          *)
(* exit is the exit status of the script, wrote whether it wrote the       *)
(* document back.                                                          *)
(***************************************************************************)
\* the number of inspector passes
MaxPasses == 1

\* binaries: one that holds the version string, one that does not, one that
\* cannot be read
FileWithVersion == [readable |-> TRUE, bytes |-> VersionString]

FileWithoutVersion == [readable |-> TRUE, bytes |-> <<"#">>]

FileUnreadable == [readable |-> FALSE, bytes |-> << >>]

\* every process prints the version; every process times out
ExecPrints == [k \in 1..2 |-> [kind |-> "output", output |-> VersionString \o << ".", "\n" >>]]

ExecTimesOut == [k \in 1..2 |-> [kind |-> "timeout", output |-> << >>]]

DownloadFails ==
    [download |-> FALSE, extract |-> FALSE, found |-> FALSE, file |-> FileUnreadable,
     exec |-> ExecTimesOut]

\* what can happen to an entry that extract_daemon_versions.py processes
DaemonOutcomes ==
    { DownloadFails,
      [DownloadFails EXCEPT !.download = TRUE],
      [DownloadFails EXCEPT !.download = TRUE, !.extract = TRUE] }
    \cup { [download |-> TRUE, extract |-> TRUE, found |-> TRUE, file |-> file, exec |-> exec] :
             << file, exec >> \in { << FileWithVersion, ExecTimesOut >>,
                                    << FileWithoutVersion, ExecTimesOut >>,
                                    << FileUnreadable, ExecTimesOut >>,
                                    << FileUnreadable, ExecPrints >> } }

\* what can happen to an entry that calculate_binary_hashes.py processes
HashesOutcomes ==
    { DownloadFails,
      [DownloadFails EXCEPT !.download = TRUE],
      [DownloadFails EXCEPT !.download = TRUE, !.extract = TRUE],
      [DownloadFails EXCEPT !.download = TRUE, !.extract = TRUE, !.found = TRUE],
      [DownloadFails EXCEPT !.download = TRUE, !.extract = TRUE, !.found = TRUE,
                            !.file = FileWithVersion] }

\* one outcome for every entry that the pass does not pass over
DaemonChoices(files, os_filter) ==
    {outcomes \in [1..Len(files) -> DaemonOutcomes] :
        \A k \in 1..Len(files) :
            DaemonSkips(files[k], os_filter) => outcomes[k] = DownloadFails}

HashesChoices(files) ==
    {outcomes \in [1..Len(files) -> HashesOutcomes] :
        \A k \in 1..Len(files) : HashesSkips(files[k]) => outcomes[k] = DownloadFails}

\* a pass that ends before the loop: sys.exit(1) at lines 245-247, or the
\* JSONDecodeError that json.load raises at line 250, which nothing catches
EarlyExit(script) ==
    [script |-> script, exit |-> 1, events |-> << >>,
     updated_count |-> 0, wrote |-> FALSE]

\* the end of main(): the document is written back when updated_count > 0
\* (lines 292-303 of extract_daemon_versions.py, 191-202 of
\* calculate_binary_hashes.py)
SaveUpdated(script, done) ==
    /\ inspect_log' = Append(inspect_log,
           [script |-> script, exit |-> 0, events |-> done.events,
            updated_count |-> done.updated_count, wrote |-> done.updated_count > 0])
    /\ le_versions' = IF done.updated_count > 0
                      THEN [le_versions EXCEPT !.files = done.files]
                      ELSE le_versions

\* lines 242-303 of extract_daemon_versions.py: main()
DaemonPass ==
    /\ pc = "idle"
    /\ Len(inspect_log) < MaxPasses
    /\ IF le_file # "json"
       THEN /\ inspect_log' = Append(inspect_log, EarlyExit("extract_daemon_versions"))
            /\ le_versions' = le_versions
       ELSE \E outcomes \in DaemonChoices(FilesOf(le_versions), OS_FILTER) :
               SaveUpdated("extract_daemon_versions",
                           DaemonEntries(FilesOf(le_versions), 1, SYSTEM, OS_FILTER,
                                         outcomes, NoEntries))
    /\ UNCHANGED << world, cache, blanks, versions_list, e_versions, b_versions, e_grouped,
                    b_grouped, lb_versions, pc, exit_code, locals, logs, run, faults, pure,
                    SYSTEM, OS_FILTER, le_file >>

\* lines 147-202 of calculate_binary_hashes.py: main()
HashesPass ==
    /\ pc = "idle"
    /\ Len(inspect_log) < MaxPasses
    /\ IF le_file # "json"
       THEN /\ inspect_log' = Append(inspect_log, EarlyExit("calculate_binary_hashes"))
            /\ le_versions' = le_versions
       ELSE \E outcomes \in HashesChoices(FilesOf(le_versions)) :
               SaveUpdated("calculate_binary_hashes",
                           HashesEntries(FilesOf(le_versions), 1, outcomes, NoEntries))
    /\ UNCHANGED << world, cache, blanks, versions_list, e_versions, b_versions, e_grouped,
                    b_grouped, lb_versions, pc, exit_code, locals, logs, run, faults, pure,
                    SYSTEM, OS_FILTER, le_file >>

(***************************************************************************)
(* The inspector scripts alone, on a catalog document of two entries that  *)
(* earlier passes may have enriched.                                       *)
(***************************************************************************)
\* the archives of the latest export version
InspectFileNames == << <<"t","o","r","-","l","i","n","u","x","-","x","8","6","_","6","4",".","t","a","r",".","g","z">>, <<"t","o","r","-","a","n","d","r","o","i","d","-","a","r","m","v","7",".","t","a","r",".","g","z">> >>

\* what earlier passes left on an entry
Enrichments == {"none", "daemon", "error", "daemon_hash", "hashes"}

Enriched(file_info, enrichment) ==
    LET version == SetField(file_info, "daemon_version", <<"0",".","4",".","8",".","1","9">>)
        error == SetField(file_info, "daemon_version", <<"E","r","r","o","r",":"," ","t","i","m","e","o","u","t">>)
        hash(f) == SetField(f, "daemon_hash", Sha256Hex(FileWithoutVersion))
        md5(f) == SetField(f, "binary_md5", Md5Hex(FileWithVersion))
        sha256(f) == SetField(f, "binary_sha256", Sha256Hex(FileWithVersion))
    IN  CASE enrichment = "none" -> file_info
          [] enrichment = "daemon" -> hash(version)
          [] enrichment = "error" -> hash(error)
          [] enrichment = "daemon_hash" -> hash(file_info)
          [] enrichment = "hashes" -> sha256(md5(file_info))

InspectDocs ==
    LET plain == VersionData(<<"1","4",".","0">>, InspectFileNames)
    IN  { [plain EXCEPT !.files = [k \in 1..Len(plain.files) |->
                                      Enriched(plain.files[k], enrichments[k])]] :
            enrichments \in [1..Len(InspectFileNames) -> Enrichments] }

\* main.py has not run and no function is applied on its own
NoCrawl ==
    /\ world = 1
    /\ cache = [t \in Tiers |-> << >>]
    /\ blanks = {}
    /\ versions_list = << >>
    /\ e_versions = << >>
    /\ b_versions = << >>
    /\ e_grouped = EmptyObject
    /\ b_grouped = EmptyObject
    /\ lb_versions = EmptyObject
    /\ pc = "idle"
    /\ exit_code = << >>
    /\ blank_list = {}
    /\ versions = << >>
    /\ count = 1
    /\ export_blank_list = << >>
    /\ browser_blank_list = << >>
    /\ fetch_log = << >>
    /\ write_log = << >>
    /\ visit_log = << >>
    /\ run = 0
    /\ faults = 0
    /\ latest_in = << >>
    /\ latest_out = << >>
    /\ grouped_call = NoCall
    /\ binary_call = NoCall

InitInspect ==
    /\ NoCrawl
    /\ request_call = NoCall
    /\ SYSTEM \in {"linux", "windows"}
    /\ OS_FILTER \in {<< >>, <<"l","i","n","u","x">>}
    /\ inspect_log = << >>
    /\ \/ le_file \in {"absent", "malformed"} /\ le_versions = EmptyObject
       \/ le_file = "json" /\ le_versions = EmptyObject
       \/ le_file = "json" /\ le_versions \in InspectDocs

NextInspect == DaemonPass \/ HashesPass

SpecInspect == InitInspect /\ [][NextInspect]_vars

(***************************************************************************)
(* Properties.                                                             *)
(***************************************************************************)
\* the tier document of version v is on disk
OnDisk(tier, v) == (v \o JsonSuffix) \in DOMAIN cache[tier]

\* the version the loop body is about to process
Current == versions[count]

\* the cache writes of the step in progress
NewWrites ==
    IF pc = "crawl" THEN SubSeq(write_log', Len(write_log) + 1, Len(write_log'))
    ELSE << >>

\* the last entry of the visit log
LastVisit == visit_log[Len(visit_log)]

\* C1: write-once cache. No step changes or removes a tier document that is on
\* disk, and no step writes to a tier document that is already on disk.
C1_WriteOnce ==
    [][/\ \A t \in Tiers : \A f \in DOMAIN cache[t] :
             f \in DOMAIN cache'[t] /\ cache'[t][f] = cache[t][f]
       /\ \A i \in 1..Len(NewWrites) : ~OnDisk(NewWrites[i][1], NewWrites[i][2])
      ]_vars

\* a later run has visited a version whose three tier documents an earlier run wrote
C1_Witness ==
    /\ run >= 2
    /\ pc = "idle"
    /\ exit_code = << 0 >>
    /\ \E i \in 1..Len(visit_log) :
          /\ \A t \in Tiers : OnDisk(t, visit_log[i].version)
          /\ \A k \in 1..Len(write_log) : write_log[k][2] # visit_log[i].version

\* C2: a pass of the loop for a version whose export and browser documents both
\* exist requests no listing, writes no cache document and appends to no blank
\* accumulator.
C2_ProcessedSkipped ==
    [][(pc = "crawl" /\ OnDisk("export", Current) /\ OnDisk("browser", Current))
         => UNCHANGED << cache, fetch_log, write_log,
                         export_blank_list, browser_blank_list >>
      ]_vars

\* a version with both documents on disk has been visited and left alone
C2_Witness ==
    /\ Len(visit_log) > 0
    /\ OnDisk("export", LastVisit.version)
    /\ OnDisk("browser", LastVisit.version)
    /\ LastVisit.path = "processed"
    /\ LastVisit.version \notin Range(fetch_log)

\* C3: a pass of the loop for a version that is in the blank list loaded at
\* start-up and has no all-tier document requests no listing.
C3_BlankNotFetched ==
    [][(pc = "crawl" /\ Current \in blank_list /\ ~OnDisk("all", Current))
         => fetch_log' = fetch_log
      ]_vars

\* a blank-listed version without an all-tier document has been visited
C3_Witness ==
    /\ Len(visit_log) > 0
    /\ LastVisit.version \in blank_list
    /\ ~OnDisk("all", LastVisit.version)
    /\ LastVisit.path = "blank_listed"
    /\ LastVisit.version \notin Range(fetch_log)

\* the files of an all-tier list that belong to a tier, by name: the export tier
\* keeps the expert bundle and the Linux archive, the browser tier the browser
\* bundle and the Linux archive
ExpectedPartition(tier, files) ==
    SelectSeq(files, LAMBDA f :
        f \in (IF tier = "export" THEN {F_export, F_linux} ELSE {F_browser, F_linux}))

\* the blank accumulator of a tier
Accumulator(tier) ==
    IF tier = "export" THEN export_blank_list ELSE browser_blank_list

\* the pass in progress resumes version Current from its all-tier document
Resuming ==
    /\ pc = "crawl"
    /\ OnDisk("all", Current)
    /\ ~(OnDisk("export", Current) /\ OnDisk("browser", Current))

\* the pass in progress leaves tier t of Current partitioned from the cached list:
\* the document holds the tier's files of the list or, there being none, the
\* version is in the tier's accumulator and no document was written
PartitionedFromCache(t) ==
    LET f == Current \o JsonSuffix
        expected == ExpectedPartition(t, cache["all"][f].files)
    IN  IF Len(expected) > 0
        THEN f \in DOMAIN cache'[t] /\ cache'[t][f] = [valid |-> TRUE, files |-> expected]
        ELSE f \notin DOMAIN cache'[t] /\ Current \in Range(Accumulator(t)')

\* C4 as stated: a pass for a version whose all-tier document exists while its
\* export or browser document is missing requests no listing and partitions every
\* missing tier from the cached all-tier list.
C4_AsStated ==
    [][Resuming =>
         /\ fetch_log' = fetch_log
         /\ cache["all"][Current \o JsonSuffix].valid
         /\ \A t \in {"export", "browser"} : ~OnDisk(t, Current) => PartitionedFromCache(t)
      ]_vars

\* C4 (amended): such a pass requests no listing; when the all-tier document is
\* readable and no write of the pass fails, it partitions every missing tier from
\* the cached all-tier list.
C4_ResumeFromAll ==
    [][Resuming =>
         /\ fetch_log' = fetch_log
         /\ (cache["all"][Current \o JsonSuffix].valid /\ faults' = faults)
              => \A t \in {"export", "browser"} :
                    ~OnDisk(t, Current) => PartitionedFromCache(t)
      ]_vars

\* a version of the blank list was resumed from its all-tier document, and its
\* export document written without a request
C4_Witness ==
    /\ Len(visit_log) > 0
    /\ LastVisit.path = "cached"
    /\ LastVisit.version \in blank_list
    /\ << "export", LastVisit.version >> \in Range(write_log)
    /\ LastVisit.version \notin Range(fetch_log)

\* C5 as stated, for runs in which no fetch and no write fails: once a run has
\* completed, the following run requests no version listing, writes no cache
\* document and leaves the versions list, both catalogs and the blank list as
\* they are.
C5_Converged ==
    [][(exit_code = << 0 >> /\ faults' = 0) =>
         /\ pc = "crawl" => fetch_log' = fetch_log
         /\ cache' = cache
         /\ versions_list' = versions_list
         /\ e_versions' = e_versions
         /\ b_versions' = b_versions
         /\ blanks' = blanks
      ]_vars

\* C6: every version visited so far is the next one of the list, every version
\* whose pass raised is in both blank accumulators, and the loop goes on to the
\* end of the list.
C6_FailureIsolated ==
    /\ Len(visit_log) <= Len(versions)
    /\ \A i \in 1..Len(visit_log) :
          /\ visit_log[i].version = versions[i]
          /\ visit_log[i].raised =>
                /\ versions[i] \in Range(export_blank_list)
                /\ versions[i] \in Range(browser_blank_list)
    /\ pc = "crawl" => (count = Len(visit_log) + 1 /\ count <= Len(versions))
    /\ pc = "build" => Len(visit_log) = Len(versions)
    /\ (pc = "idle" /\ exit_code = << 0 >>) => Len(visit_log) = Len(versions)

\* a run has completed in which the fetch of one version and a cache write of
\* another failed, and a later version was processed without an exception
C6_Witness ==
    /\ pc = "idle"
    /\ exit_code = << 0 >>
    /\ \E i, j, k \in 1..Len(visit_log) :
          /\ visit_log[i].path = "fetch_failed"
          /\ visit_log[j].path = "write_failed"
          /\ i < k /\ j < k
          /\ ~visit_log[k].raised

\* the file names of a page that are distributable files
UsableFiles(page) == SelectSeq(page, LAMBDA f : f \in {F_export, F_browser, F_linux})

\* C7 as stated: every version of the persisted blank list is one whose listing
\* holds no usable file; none is there because its fetch failed, and none has a
\* non-empty tier document.
C7_BlankMeansEmpty ==
    \A v \in blanks :
        /\ Len(UsableFiles(Worlds[world].listing[v])) = 0
        /\ \A t \in Tiers : OnDisk(t, v) => Len(cache[t][v \o JsonSuffix].files) = 0
        /\ (pc = "idle" /\ exit_code = << 0 >>) =>
              \A i \in 1..Len(visit_log) :
                  visit_log[i].version = v => visit_log[i].path # "fetch_failed"

ExpectedKey(v) ==
    CASE v = V_2_0 -> << 2, 0 >>
      [] v = V_10_0 -> << 10, 0 >>
      [] v = V_2_0_1 -> << 2, 0, 1 >>
      [] v = V_2_0a1 -> << 2, 0, 1 >>

\* tuple a is not greater than tuple b: at the first place where they differ a is
\* smaller, or a is a prefix of b
Precedes(a, b) ==
    LET common == {k \in 1..Len(a) : k <= Len(b)}
        differ == {k \in common : a[k] # b[k]}
    IN  IF differ = {} THEN Len(a) <= Len(b)
        ELSE LET k == CHOOSE x \in differ : \A y \in differ : x <= y
             IN  a[k] < b[k]

\* C9: the persisted versions list has no duplicates and is ordered
\* non-decreasingly by the tuple of integer runs, as are both catalogs; the
\* versions 2.0, 10.0 and 2.0.1 are persisted as 2.0, 2.0.1, 10.0.
C9_Ordered ==
    /\ \A i, j \in 1..Len(versions_list) :
          i < j => /\ versions_list[i] # versions_list[j]
                   /\ Precedes(ExpectedKey(versions_list[i]), ExpectedKey(versions_list[j]))
    /\ \A i, j \in 1..Len(e_versions) :
          i < j => Precedes(ExpectedKey(e_versions[i].version),
                            ExpectedKey(e_versions[j].version))
    /\ \A i, j \in 1..Len(b_versions) :
          i < j => Precedes(ExpectedKey(b_versions[i].version),
                            ExpectedKey(b_versions[j].version))
    /\ (world = 1 /\ Len(versions_list) > 0)
          => versions_list = << V_2_0, V_2_0_1, V_10_0 >>

\* a run has persisted three versions found in another order, one of them twice,
\* and catalogs of several entries
C9_Witness ==
    /\ pc = "idle"
    /\ exit_code = << 0 >>
    /\ Len(versions_list) = 3
    /\ Len(FoundVersions(RootPage(world))) = 4
    /\ FoundVersions(RootPage(world))[2] = versions_list[3]
    /\ Len(e_versions) >= 2
    /\ Len(b_versions) >= 2

\* a version made of digits and dots only
DigitsAndDots(v) == \A i \in 1..Len(v) : IsDigit(v[i]) \/ v[i] = "."

\* a version that is its integer runs joined by single dots: digits and dots
\* only, with one dot fewer than integer runs
DottedNumber(v) ==
    LET dots == {i \in 1..Len(v) : v[i] = "."}
        starts == {i \in 1..Len(v) : IsDigit(v[i]) /\ (i = 1 \/ ~IsDigit(v[i - 1]))}
    IN  DigitsAndDots(v) /\ Cardinality(starts) = Cardinality(dots) + 1

\* get_latest_version has returned: the sentinel exactly when no entry of its
\* argument qualifies, else a qualifying entry whose tuple of integer runs no
\* qualifying entry exceeds; ["14.0.3", "14.0.4-alpha"] gives "14.0.3"
LatestSelected(Qualifies(_)) ==
    run = 1 =>
        LET qualifying == {i \in 1..Len(latest_in) : Qualifies(latest_in[i].version)}
        IN  /\ IF qualifying = {}
               THEN latest_out = NoVersion
               ELSE /\ \E i \in qualifying : latest_out = latest_in[i]
                    /\ \A i \in qualifying :
                          Precedes(VersionKey(latest_in[i].version),
                                   VersionKey(latest_out.version))
            /\ ( /\ Len(latest_in) = 2
                 /\ latest_in[1].version = <<"1","4",".","0",".","3">>
                 /\ latest_in[2].version = <<"1","4",".","0",".","4","-","a","l","p","h","a">> )
                  => latest_out.version = <<"1","4",".","0",".","3">>

\* C10 as stated: get_latest_version returns the entry of the greatest numeric
\* tuple among the entries whose version consists only of digits and dots, and
\* the sentinel exactly when there is no such entry.
C10_AsStated == LatestSelected(DigitsAndDots)

\* C10: get_latest_version returns the entry of the greatest numeric tuple among
\* the entries whose version is a sequence of integers joined by single dots, and
\* the sentinel exactly when there is no such entry.
C10_LatestDotted == LatestSelected(DottedNumber)

\* get_latest_version has returned a dotted number from a catalog that also holds
\* a version of digits and dots that is no dotted number
C10_Witness ==
    /\ run = 1
    /\ \E i, j \in 1..Len(latest_in) :
          /\ DigitsAndDots(latest_in[i].version)
          /\ ~DottedNumber(latest_in[i].version)
          /\ DottedNumber(latest_in[j].version)
          /\ latest_out = latest_in[j]

\* the keywords of the platforms that have any
Keywords(platform) ==
    CASE platform = "windows" -> { <<"w","i","n">>, <<"w","i","n","d","o","w","s">> }
      [] platform = "macos" -> { <<"m","a","c">>, <<"o","s","x">>, <<"d","a","r","w","i","n">> }
      [] platform = "linux" -> { <<"l","i","n","u","x">> }
      [] platform = "android" -> { <<"a","n","d","r","o","i","d">> }
      [] OTHER -> {}

\* the first platform, in the order of Platforms, one of whose keywords is in
\* the lower-cased name; other when there is none
FirstMatch(file_name) ==
    LET matching == {i \in 1..Len(Platforms) :
                        \E word \in Keywords(Platforms[i]) : Contains(word, ToLower(file_name))}
    IN  IF matching = {} THEN "other"
        ELSE Platforms[CHOOSE i \in matching : \A j \in matching : i <= j]

\* C11: version_grouped returns the five buckets windows, macos, linux, android
\* and other; every file of every entry is in the bucket of the first platform
\* whose keywords match its lower-cased name (other when none does) and in no
\* other bucket, and the sizes of the buckets sum to the number of files.
C11_Partition ==
    grouped_call.done =>
        LET files == AllFiles(grouped_call.data)
            grouped == grouped_call.grouped
        IN  /\ DOMAIN grouped = {"windows", "macos", "linux", "android", "other"}
            /\ \A i \in 1..Len(files) : \A bucket \in DOMAIN grouped :
                  (files[i] \in Range(grouped[bucket]))
                      <=> (bucket = FirstMatch(files[i].file_name))
            /\ \A bucket \in DOMAIN grouped :
                  Range(grouped[bucket]) \subseteq Range(files)
            /\ Len(grouped["windows"]) + Len(grouped["macos"]) + Len(grouped["linux"])
                 + Len(grouped["android"]) + Len(grouped["other"]) = Len(files)

\* version_grouped has grouped the files of two entries: a name with a macos
\* keyword that holds a windows keyword, and a name with the keywords of linux
\* and android
C11_Witness ==
    /\ grouped_call.done
    /\ Len(grouped_call.data[1].files) > 0
    /\ Len(grouped_call.data[2].files) > 0
    /\ \E file \in Range(grouped_call.grouped["windows"]) :
          Contains(<<"d","a","r","w","i","n">>, file.file_name)
    /\ \E file \in Range(grouped_call.grouped["linux"]) :
          Contains(<<"a","n","d","r","o","i","d">>, file.file_name)

\* the token by which a path names the platform of a host
HostToken(system) ==
    CASE system = "linux" -> <<"l","i","n","u","x">>
      [] system = "windows" -> <<"w","i","n","d","o","w","s">>
      [] system = "darwin" -> <<"m","a","c","o","s">>
      [] OTHER -> << >>

\* the path is tagged android or ARM, or does not carry the token of the host
NotNative(tor_binary, system) ==
    \/ Contains(<<"a","n","d","r","o","i","d">>, ToLower(tor_binary))
    \/ Contains(<<"a","r","m">>, ToLower(tor_binary))
    \/ HostToken(system) = << >>
    \/ ~Contains(HostToken(system), ToLower(tor_binary))

\* C13: extract_version starts no process for a binary whose path is tagged
\* android or ARM or does not carry the platform token of the host; it searches
\* the bytes of the file instead.
C13_NoForeignExecution ==
    (binary_call.done /\ binary_call.function = "extract_version"
        /\ NotNative(binary_call.tor_binary, SYSTEM))
    => /\ binary_call.result.started = << >>
       /\ binary_call.result.scanned

\* extract_version has returned the version found in the bytes of an ARM binary
\* for linux on a linux host, and of a windows binary on a darwin host
C13_Witness ==
    /\ binary_call.done
    /\ binary_call.function = "extract_version"
    /\ binary_call.result.started = << >>
    /\ binary_call.result.version = <<"0",".","4",".","8",".","1","9">>
    /\ \/ SYSTEM = "linux" /\ binary_call.tor_binary = <<"/","t","/","t","o","r","-","l","i","n","u","x","-","a","r","m","v","7","/","t","o","r">>
       \/ SYSTEM = "darwin" /\ binary_call.tor_binary = <<"/","t","/","t","o","r","-","w","i","n","d","o","w","s","-","i","6","8","6","/","t","o","r",".","e","x","e">>

\* C14 as stated: for every readable file whose bytes contain "Tor version
\* 0.4.8.19", extract_version_from_binary_strings returns "0.4.8.19".
C14_ScanFindsVersion ==
    (binary_call.done /\ binary_call.function = "extract_version_from_binary_strings"
        /\ binary_call.file.readable /\ Contains(VersionString, binary_call.file.bytes))
    => binary_call.result.version = <<"0",".","4",".","8",".","1","9">>

(***************************************************************************)
(* The network operations: safe_request on its own, applied to the         *)
(* responses its successive GETs receive, and the archive downloads of the *)
(* inspector passes.                                                        *)
(***************************************************************************)
\* line 53 of main.py: the defaults of safe_request
max_retries == 3
delay == 1

\* mutant: the wait is not left out after the last attempt
SleepsAfter_Always(attempt) == TRUE

\* line 62: a wait follows every failed attempt but the last
SleepsAfter(attempt) == attempt < max_retries - 1

\* lines 55-66: the attempts from number attempt on (counted from 0)
RECURSIVE Attempt(_, _, _)
Attempt(responses, attempt, sleeps) ==
    IF attempt >= max_retries
    THEN [raised |-> FALSE, returned |-> << >>, attempts |-> attempt, sleeps |-> sleeps]
    ELSE IF responses[attempt + 1].status = "ok"
         THEN [raised |-> FALSE, returned |-> responses[attempt + 1].text,
               attempts |-> attempt + 1, sleeps |-> sleeps]
         ELSE IF SleepsAfter(attempt)
              THEN Attempt(responses, attempt + 1, Append(sleeps, delay * (2 ^ attempt)))
              ELSE [raised |-> TRUE, returned |-> None, attempts |-> attempt + 1,
                    sleeps |-> sleeps]

\* lines 53-66
safe_request(responses) == Attempt(responses, 0, << >>)

\* what a GET receives: a page, a status raise_for_status rejects, or no
\* answer within the timeout
Responses ==
    { [status |-> "ok", text |-> <<"A">>], [status |-> "ok", text |-> <<"B">>],
      [status |-> "http_error", text |-> <<"E">>], [status |-> "timeout", text |-> << >>] }

RequestInputs ==
    { [done |-> FALSE, responses |-> responses] :
        responses \in [1..max_retries -> Responses] }

InitNetwork ==
    /\ NoCrawl
    /\ SYSTEM = "linux"
    /\ OS_FILTER = << >>
    /\ inspect_log = << >>
    /\ le_file = "json"
    /\ \/ request_call \in RequestInputs /\ le_versions = EmptyObject
       \/ request_call = NoCall /\ le_versions \in InspectDocs

SafeRequest ==
    /\ ~ request_call.done
    /\ "responses" \in DOMAIN request_call
    /\ LET result == safe_request(request_call.responses)
       IN  request_call' = [done |-> TRUE, responses |-> request_call.responses,
                            raised |-> result.raised, returned |-> result.returned,
                            attempts |-> result.attempts, sleeps |-> result.sleeps]
    /\ UNCHANGED << world, disk, pc, exit_code, locals, logs, run, faults, latest_in,
                    latest_out, grouped_call, binary_call, inspector >>

NextNetwork == SafeRequest \/ DaemonPass \/ HashesPass

SpecNetwork == InitNetwork /\ [][NextNetwork]_vars

(***************************************************************************)
(* The pipeline: runs of main.py and inspector passes in any order on the  *)
(* same data directory, every fetch and write of main.py succeeding.       *)
(***************************************************************************)
InitPipeline ==
    /\ world = 1
    /\ cache = [t \in Tiers |-> << >>]
    /\ blanks = {}
    /\ versions_list = << >>
    /\ e_versions = << >>
    /\ b_versions = << >>
    /\ e_grouped = EmptyObject
    /\ b_grouped = EmptyObject
    /\ le_versions = EmptyObject
    /\ lb_versions = EmptyObject
    /\ pc = "idle"
    /\ exit_code = << >>
    /\ blank_list = {}
    /\ versions = << >>
    /\ count = 1
    /\ export_blank_list = << >>
    /\ browser_blank_list = << >>
    /\ fetch_log = << >>
    /\ write_log = << >>
    /\ visit_log = << >>
    /\ run = 0
    /\ faults = MaxFaults
    /\ latest_in = << >>
    /\ latest_out = << >>
    /\ grouped_call = NoCall
    /\ binary_call = NoCall
    /\ request_call = NoCall
    /\ NoInspector

NextPipeline == Discover \/ Visit \/ Build \/ DaemonPass \/ HashesPass

SpecPipeline == InitPipeline /\ [][NextPipeline]_vars

(***************************************************************************)
(* Properties of the inspector passes                                      *)
(***************************************************************************)

\* the pass a step has just appended to the log
LastPass == inspect_log'[Len(inspect_log')]

\* the step is a complete pass of the script over the catalog
PassStep(script) ==
    /\ Len(inspect_log') = Len(inspect_log) + 1
    /\ LastPass.script = script
    /\ LastPass.exit = 0

\* entry k was passed over: nothing downloaded, extracted or started, and
\* the entry on disk is what it was
Untouched(k) ==
    /\ LastPass.events[k].skipped
    /\ LastPass.events[k].downloads = 0
    /\ ~ LastPass.events[k].extracted
    /\ LastPass.events[k].started = << >>
    /\ FilesOf(le_versions')[k] = FilesOf(le_versions)[k]

\* C12 as stated: an entry with non-empty daemon_version and daemon_hash is
\* skipped untouched by extract_daemon_versions, and an entry with non-empty
\* binary_md5 and binary_sha256 is skipped untouched by calculate_binary_hashes
C12_AsStated ==
    [][\A k \in 1..Len(FilesOf(le_versions)) :
          LET file_info == FilesOf(le_versions)[k]
          IN  /\ ( /\ PassStep("extract_daemon_versions")
                   /\ HasValue(file_info, "daemon_version")
                   /\ HasValue(file_info, "daemon_hash") ) => Untouched(k)
              /\ ( /\ PassStep("calculate_binary_hashes")
                   /\ HasValue(file_info, "binary_md5")
                   /\ HasValue(file_info, "binary_sha256") ) => Untouched(k)]_vars

\* C12: an entry whose daemon_version is non-empty and does not start with
\* "Error" is skipped untouched by extract_daemon_versions, whatever its
\* daemon_hash, and an entry with non-empty binary_md5 and binary_sha256 is
\* skipped untouched by calculate_binary_hashes
C12_Skipped ==
    [][\A k \in 1..Len(FilesOf(le_versions)) :
          LET file_info == FilesOf(le_versions)[k]
          IN  /\ ( /\ PassStep("extract_daemon_versions")
                   /\ HasValue(file_info, "daemon_version")
                   /\ ~ StartsWith(file_info["daemon_version"], <<"E","r","r","o","r">>) ) => Untouched(k)
              /\ ( /\ PassStep("calculate_binary_hashes")
                   /\ HasValue(file_info, "binary_md5")
                   /\ HasValue(file_info, "binary_sha256") ) => Untouched(k)]_vars

\* a pass of extract_daemon_versions that skipped an entry carrying its
\* version and hash and processed another entry
C12_Witness ==
    /\ Len(inspect_log) = 1
    /\ inspect_log[1].script = "extract_daemon_versions"
    /\ inspect_log[1].exit = 0
    /\ \E k, n \in 1..Len(inspect_log[1].events) :
          /\ inspect_log[1].events[k].skipped
          /\ inspect_log[1].events[k].downloads = 0
          /\ HasValue(FilesOf(le_versions)[k], "daemon_version")
          /\ HasValue(FilesOf(le_versions)[k], "daemon_hash")
          /\ ~ FilteredOut(FilesOf(le_versions)[k].file_name, OS_FILTER)
          /\ ~ inspect_log[1].events[n].skipped
          /\ inspect_log[1].events[n].downloads = 1

\* the entry has the same value, or the same absence of a value, under key
FieldSame(before, after, key) ==
    /\ key \in DOMAIN after <=> key \in DOMAIN before
    /\ key \in DOMAIN before => after[key] = before[key]

\* some step of the processing of the entry failed
StepFailed(script, event) ==
    /\ ~ event.skipped
    /\ \/ event.result = << >>
       \/ /\ script = "extract_daemon_versions"
          /\ event.result # << >>
          /\ \/ event.result[1].version = None
             \/ event.result[1].hash = None

\* the entry is one the pass has to process
Eligible(script, file_info) ==
    IF script = "extract_daemon_versions"
    THEN /\ ~ FilteredOut(file_info.file_name, OS_FILTER)
         /\ ~ ( /\ HasValue(file_info, "daemon_version")
                /\ ~ StartsWith(file_info["daemon_version"], <<"E","r","r","o","r">>) )
    ELSE ~ (HasValue(file_info, "binary_md5") /\ HasValue(file_info, "binary_sha256"))

InspectorScripts == {"extract_daemon_versions", "calculate_binary_hashes"}

\* C15 as stated: when any step for an entry fails, download, extraction,
\* locating the executable, hash computation or version determination, the
\* entry is left as it was and the pass goes on to the next entry
C15_AsStated ==
    [][\A script \in InspectorScripts : PassStep(script) =>
          /\ Len(LastPass.events) = Len(FilesOf(le_versions))
          /\ \A k \in 1..Len(FilesOf(le_versions)) :
                StepFailed(script, LastPass.events[k])
                    => FilesOf(le_versions')[k] = FilesOf(le_versions)[k]]_vars

\* C15: when the download, the extraction or the search for the executable
\* fails, or calculate_hashes fails, the entry is left as it was; when
\* extract_daemon_versions fails to determine only the version or only the
\* hash, the field that failed is left as it was; in every case the pass goes
\* on and processes every later entry it has to process
C15_FailureIsolated ==
    [][\A script \in InspectorScripts : PassStep(script) =>
          /\ Len(LastPass.events) = Len(FilesOf(le_versions))
          /\ \A k \in 1..Len(FilesOf(le_versions)) :
                LET event == LastPass.events[k]
                    before == FilesOf(le_versions)[k]
                    after == FilesOf(le_versions')[k]
                IN  /\ event.file_name = before.file_name
                    /\ Eligible(script, before) => ~ event.skipped /\ event.downloads = 1
                    /\ event.result = << >> => after = before
                    /\ (script = "extract_daemon_versions" /\ event.result # << >>) =>
                          /\ event.result[1].version = None
                                => FieldSame(before, after, "daemon_version")
                          /\ event.result[1].hash = None
                                => FieldSame(before, after, "daemon_hash")
                          /\ FieldSame(before, after, "binary_md5")
                          /\ FieldSame(before, after, "binary_sha256")
                    /\ (script = "calculate_binary_hashes" /\ event.result # << >>) =>
                          /\ FieldSame(before, after, "daemon_version")
                          /\ FieldSame(before, after, "daemon_hash")]_vars

\* a pass whose first entry failed before a binary was found and was left
\* without fields, and whose second entry was processed and recorded
C15_Witness ==
    /\ Len(inspect_log) = 1
    /\ inspect_log[1].exit = 0
    /\ Len(inspect_log[1].events) = 2
    /\ ~ inspect_log[1].events[1].skipped
    /\ inspect_log[1].events[1].result = << >>
    /\ DOMAIN FilesOf(le_versions)[1] = {"file_name", "url"}
    /\ ~ inspect_log[1].events[2].skipped
    /\ inspect_log[1].events[2].result # << >>
    /\ inspect_log[1].wrote

\* C16: a pass writes the catalog document back exactly when the fields of
\* at least one entry were changed during the pass
C16_WritesIffChanged ==
    [][\A script \in InspectorScripts : PassStep(script) =>
          (LastPass.wrote <=>
              \E k \in 1..Len(FilesOf(le_versions)) :
                  FilesOf(le_versions')[k] # FilesOf(le_versions)[k])]_vars

\* C17: an inspector script exits with code 1 only when the catalog document
\* is missing, and then before any entry is looked at; in every other case it
\* exits with code 0
C17_ExitCodes ==
    \A i \in 1..Len(inspect_log) :
        /\ inspect_log[i].exit = 1 <=> le_file = "absent"
        /\ inspect_log[i].exit = 1 => inspect_log[i].events = << >> /\ ~ inspect_log[i].wrote
        /\ inspect_log[i].exit \in {0, 1}

\* C20: a catalog document that is not valid JSON is treated by an inspector
\* script as an empty catalog: the script ends normally without processing
\* or writing anything
C20_MalformedIsEmpty ==
    \A i \in 1..Len(inspect_log) :
        le_file = "malformed" =>
            /\ inspect_log[i].exit = 0
            /\ inspect_log[i].events = << >>
            /\ ~ inspect_log[i].wrote

(***************************************************************************)
(* Properties of the network operations                                    *)
(***************************************************************************)
\* the attempts that would succeed
Successes(responses) == {k \in 1..Len(responses) : responses[k].status = "ok"}

Least(S) == CHOOSE k \in S : \A n \in S : k <= n

\* C18: safe_request makes at most 3 attempts, returns the body of the first
\* attempt that succeeds and makes no attempt after it, waits 1 and then 2
\* between consecutive failed attempts and not after the last, and raises
\* after the third failure; a pass downloads the archive of an entry it
\* processes exactly once and downloads nothing for an entry it skips
C18_RetryPolicy ==
    /\ request_call.done =>
          LET r == request_call
              successes == Successes(r.responses)
          IN  /\ r.attempts <= 3
              /\ successes # {} =>
                    /\ ~ r.raised
                    /\ r.returned = r.responses[Least(successes)].text
                    /\ r.attempts = Least(successes)
                    /\ r.sleeps = SubSeq(<<1, 2>>, 1, Least(successes) - 1)
              /\ successes = {} =>
                    /\ r.raised
                    /\ r.attempts = 3
                    /\ r.sleeps = <<1, 2>>
    /\ \A i \in 1..Len(inspect_log) :
          \A k \in 1..Len(inspect_log[i].events) :
              inspect_log[i].events[k].downloads
                  = IF inspect_log[i].events[k].skipped THEN 0 ELSE 1

\* a request that failed twice, waited 1 and 2, and succeeded at the third
\* attempt
C18_Witness ==
    /\ request_call.done
    /\ request_call.attempts = 3
    /\ request_call.sleeps = <<1, 2>>
    /\ request_call.responses[1].status = "timeout"
    /\ request_call.responses[2].status = "http_error"
    /\ request_call.responses[3].status = "ok"
    /\ request_call.returned = request_call.responses[3].text

(***************************************************************************)
(* Properties of the pipeline                                              *)
(***************************************************************************)
EnrichedFields == {"binary_md5", "binary_sha256", "daemon_version", "daemon_hash"}

\* C19: a step of main.py neither adds, changes nor removes an enriched
\* field of a file entry of the latest-export document that is still in the
\* document after the step
C19_InspectorOwnsFields ==
    [][inspect_log' = inspect_log =>
          \A k \in 1..Len(FilesOf(le_versions)) :
              \A n \in 1..Len(FilesOf(le_versions')) :
                  LET before == FilesOf(le_versions)[k]
                      after == FilesOf(le_versions')[n]
                  IN  (after.file_name = before.file_name /\ after.url = before.url)
                          => \A key \in EnrichedFields : FieldSame(before, after, key)]_vars

(***************************************************************************)
(* Properties of the version determination                                 *)
(***************************************************************************)
\* the output of a process holds the marker followed by a digit or a dot
Parseable(outcome) ==
    /\ outcome.kind = "output"
    /\ \E p \in 1..Len(outcome.output) :
          /\ p + 12 <= Len(outcome.output)
          /\ SubSeq(outcome.output, p, p + 11) = <<"T","o","r"," ","v","e","r","s","i","o","n"," ">>
          /\ outcome.output[p + 12] \in {"0", "1", "2", "3", "4", "5", "6", "7", "8", "9", "."}

\* the order in which the code is to try the ways of running a binary
ExpectedAttempts(system) ==
    IF system = "linux" THEN << "with LD_LIBRARY_PATH", "default" >> ELSE << "default" >>

NewBlanks(tier) ==
    IF tier = "export"
    THEN SubSeq(export_blank_list', Len(export_blank_list) + 1, Len(export_blank_list'))
    ELSE SubSeq(browser_blank_list', Len(browser_blank_list) + 1, Len(browser_blank_list'))

\* the pass in progress reaches the partition step: the version is not fully
\* processed and its raw list is at hand, read from the all-tier document or
\* fetched and saved to it
Partitioning ==
    /\ pc = "crawl"
    /\ ~(OnDisk("export", Current) /\ OnDisk("browser", Current))
    /\ (Current \o JsonSuffix) \in DOMAIN cache'["all"]
    /\ cache'["all"][Current \o JsonSuffix].valid

\* tier t of Current after the pass: an existing document is as it was and was
\* not written to; a missing one is written exactly when the tier's files of
\* the raw list are not empty, and the version is appended to the tier's
\* accumulator exactly when they are empty
TierPartitioned(t) ==
    LET f == Current \o JsonSuffix
        expected == ExpectedPartition(t, cache'["all"][f].files)
    IN  IF OnDisk(t, Current)
        THEN /\ cache'[t][f] = cache[t][f]
             /\ << t, Current >> \notin Range(NewWrites)
             /\ Current \notin Range(NewBlanks(t))
        ELSE IF Len(expected) > 0
        THEN /\ f \in DOMAIN cache'[t]
             /\ cache'[t][f] = [valid |-> TRUE, files |-> expected]
             /\ Current \notin Range(NewBlanks(t))
        ELSE /\ f \notin DOMAIN cache'[t]
             /\ NewBlanks(t) = << Current >>

\* no document the pass wrote holds an empty list
NoEmptyDocument ==
    \A i \in 1..Len(NewWrites) :
        LET d == cache'[NewWrites[i][1]][NewWrites[i][2] \o JsonSuffix]
        IN  d.valid => Len(d.files) > 0

\* C22 as stated: in every pass that reaches the partition step, each of the
\* export and browser tiers is treated on its own: an existing document is
\* neither recomputed nor rewritten, a missing one is written if and only if
\* its filtered list is non-empty, and otherwise the version is added to that
\* tier's accumulator only; no document written holds an empty list
C22_AsStated ==
    [][/\ Partitioning => \A t \in {"export", "browser"} : TierPartitioned(t)
       /\ NoEmptyDocument]_vars

\* C22: the same, for the passes in which nothing raises; in every pass an
\* existing tier document is left as it is and no document written holds an
\* empty list
C22_PartitionStep ==
    [][/\ (Partitioning /\ ~ visit_log'[Len(visit_log')].raised)
            => \A t \in {"export", "browser"} : TierPartitioned(t)
       /\ pc = "crawl" =>
             \A t \in {"export", "browser"} :
                 OnDisk(t, Current) =>
                     /\ cache'[t][Current \o JsonSuffix] = cache[t][Current \o JsonSuffix]
                     /\ << t, Current >> \notin Range(NewWrites)
       /\ NoEmptyDocument]_vars

\* a version whose listing holds only browser files has been fetched: its
\* all-tier and browser documents are written, its export document is not,
\* and it is in the export accumulator and not in the browser accumulator
C22_Witness ==
    /\ Len(visit_log) > 0
    /\ LastVisit.path = "fetched"
    /\ ~ LastVisit.raised
    /\ OnDisk("all", LastVisit.version)
    /\ OnDisk("browser", LastVisit.version)
    /\ ~ OnDisk("export", LastVisit.version)
    /\ << "browser", LastVisit.version >> \in Range(write_log)
    /\ LastVisit.version \in Range(export_blank_list)
    /\ LastVisit.version \notin Range(browser_blank_list)

(***************************************************************************)
(* Properties of the tier documents                                        *)
(***************************************************************************)
\* the file names of the tier document f, none for a document that is not
\* valid JSON
NamesIn(tier, f) == IF cache[tier][f].valid THEN Range(cache[tier][f].files) ELSE {}

BrowserKeywords == { <<"b","r","o","w","s","e","r">>, <<"B","r","o","w","s","e","r">>, <<"B","R","O","W","S","E","R">> }

ExportPrefixes == { <<"t","o","r","-","w","i","n","3","2","-">>, <<"t","o","r","-","e","x","p","e","r","t","-","b","u","n","d","l","e">> }

\* C23: every file name of an export or browser document is in the all-tier
\* document of the same version; no file name of any tier document contains a
\* common exclusion word; no name of an export document contains a browser
\* keyword; no name of a browser document starts with an export-bundle prefix
C23_LayeredExclusion ==
    /\ \A t \in {"export", "browser"} : \A f \in DOMAIN cache[t] :
          \A name \in NamesIn(t, f) :
              f \in DOMAIN cache["all"] /\ name \in NamesIn("all", f)
    /\ \A t \in Tiers : \A f \in DOMAIN cache[t] : \A name \in NamesIn(t, f) :
          \A k \in 1..Len(COMMON_REMOVER_WORDS) : ~ Contains(COMMON_REMOVER_WORDS[k], name)
    /\ \A f \in DOMAIN cache["export"] : \A name \in NamesIn("export", f) :
          \A word \in BrowserKeywords : ~ Contains(word, name)
    /\ \A f \in DOMAIN cache["browser"] : \A name \in NamesIn("browser", f) :
          \A prefix \in ExportPrefixes :
              ~ (Len(name) >= Len(prefix) /\ SubSeq(name, 1, Len(prefix)) = prefix)

\* after a second run, a version whose listing named a sorting link, an export
\* bundle and a browser bundle has the two bundles in its all-tier document,
\* the export bundle alone in its export document and the browser bundle alone
\* in its browser document
C23_Witness ==
    /\ run >= 2
    /\ pc = "idle"
    /\ \E f \in DOMAIN cache["all"] :
          /\ f \in DOMAIN cache["export"] /\ f \in DOMAIN cache["browser"]
          /\ cache["all"][f].files = << F_export, F_browser >>
          /\ cache["export"][f].files = << F_export >>
          /\ cache["browser"][f].files = << F_browser >>

(***************************************************************************)
(* Properties of the loop over the versions                                *)
(***************************************************************************)
\* the versions of the passes made so far in this run
RECURSIVE VisitedVersions(_)
VisitedVersions(log) ==
    IF Len(log) = 0 THEN << >>
    ELSE Append(VisitedVersions(SubSeq(log, 1, Len(log) - 1)), log[Len(log)].version)

\* the passes made so far are the first versions of the list, one pass each, and
\* the list has no duplicate and ascends by its numeric key
VisitedInOrder ==
    /\ Len(visit_log) <= Len(versions)
    /\ VisitedVersions(visit_log) = SubSeq(versions, 1, Len(visit_log))
    /\ pc = "crawl" => (count = Len(visit_log) + 1 /\ count <= Len(versions))
    /\ pc = "build" => Len(visit_log) = Len(versions)
    /\ \A i, j \in 1..Len(versions) :
          i < j => /\ versions[i] # versions[j]
                   /\ Precedes(ExpectedKey(versions[i]), ExpectedKey(versions[j]))

\* no version is in the fetch log of a run twice
FetchedOnce ==
    \A i, j \in 1..Len(fetch_log) : fetch_log[i] = fetch_log[j] => i = j

\* a pass requests at most the listing of its own version, and only when the
\* version lacks an export or a browser document, has no all-tier document and
\* is not in the blank list loaded at start-up
FetchesWhenNeeded ==
    pc = "crawl" =>
        \/ fetch_log' = fetch_log
        \/ /\ fetch_log' = Append(fetch_log, Current)
           /\ ~ (OnDisk("export", Current) /\ OnDisk("browser", Current))
           /\ ~ OnDisk("all", Current)
           /\ Current \notin blank_list

\* C24: the loop makes exactly one pass per version of the list, in list order,
\* the list ascending by numeric key; a run requests the listing of a version at
\* most once, and only when the version is not fully processed, has no all-tier
\* document and is not in the blank list; the loop ends whatever fetches and
\* writes fail and whatever the cache holds
C24_OnePassEach ==
    /\ [](VisitedInOrder /\ FetchedOnce)
    /\ [][FetchesWhenNeeded]_vars
    /\ (pc = "crawl") ~> (pc = "build")

\* the loop has ended after three passes in list order, each having requested
\* the listing of its version: one request failed, one brought files and a
\* write failed in the remaining pass
C24_Witness ==
    /\ pc = "build"
    /\ Len(visit_log) = 3
    /\ fetch_log = versions
    /\ \E i \in 1..3 : visit_log[i].path = "fetch_failed"
    /\ \E i \in 1..3 : visit_log[i].path = "fetched"
    /\ \E i \in 1..3 : visit_log[i].path = "write_failed"

(***************************************************************************)
(* Properties of the catalog derivation                                    *)
(***************************************************************************)
\* the catalog document built from a tier
CatalogOf(tier) == IF tier = "export" THEN e_versions ELSE b_versions

\* the entries of a catalog that carry the version of the tier document f
EntriesFor(tier, f) ==
    {i \in 1..Len(CatalogOf(tier)) : CatalogOf(tier)[i].version \o JsonSuffix = f}

\* the entry is the tier document f rebuilt: one {file_name, url} per cached
\* name, in cached order, the url being base URL, version, "/" and file name
Rebuilt(tier, f, entry) ==
    LET names == cache[tier][f].files
    IN  /\ Len(entry.files) = Len(names)
        /\ \A k \in 1..Len(names) :
              /\ entry.files[k].file_name = names[k]
              /\ entry.files[k].url = BASE_URL \o entry.version \o << "/" >> \o names[k]

\* the as-stated reading of C25: once a run has ended, every tier document on
\* disk has exactly one entry in the catalog of its tier
C25_AsStated ==
    pc = "idle" =>
        \A t \in {"export", "browser"} : \A f \in DOMAIN cache[t] :
            Cardinality(EntriesFor(t, f)) = 1

\* C25: once a run has ended, each catalog holds exactly one entry per tier
\* document on disk that parses as JSON, none for a document that does not
\* parse and no other entry, whether or not the version is in the versions
\* list; the entry lists one {file_name, url} per cached file name, in cached
\* order, with url = base URL + version + "/" + file name
C25_CatalogDerived ==
    pc = "idle" =>
        \A t \in {"export", "browser"} :
            /\ \A f \in DOMAIN cache[t] :
                  Cardinality(EntriesFor(t, f)) = (IF cache[t][f].valid THEN 1 ELSE 0)
            /\ \A i \in 1..Len(CatalogOf(t)) :
                  LET f == CatalogOf(t)[i].version \o JsonSuffix
                  IN  /\ f \in DOMAIN cache[t]
                      /\ cache[t][f].valid
                      /\ Rebuilt(t, f, CatalogOf(t)[i])

\* a run has ended with an export catalog of two entries or more, one of them
\* for a version that the versions list no longer names, and with a browser
\* document on disk that does not parse
C25_Witness ==
    /\ pc = "idle"
    /\ exit_code = << 0 >>
    /\ Len(e_versions) >= 2
    /\ \E i \in 1..Len(e_versions) :
          /\ e_versions[i].version \notin Range(versions_list)
          /\ Len(e_versions[i].files) > 0
    /\ \E f \in DOMAIN cache["browser"] : ~ cache["browser"][f].valid

(***************************************************************************)
(* Properties of the platform filter                                       *)
(***************************************************************************)
\* OS_FILTER is set and the lower-cased file name does not contain it
OtherPlatform(file_name) ==
    /\ OS_FILTER # << >>
    /\ ~ Contains(OS_FILTER, ToLower(file_name))

\* the entries of the catalog that the filter excludes
Excluded == {k \in 1..Len(FilesOf(le_versions)) :
                OtherPlatform(FilesOf(le_versions)[k].file_name)}

\* a pass of the script leaves every excluded entry untouched and counts at
\* most the other entries as updated
FilterFrame(script) ==
    PassStep(script) =>
        /\ \A k \in Excluded : Untouched(k)
        /\ LastPass.updated_count <= Len(FilesOf(le_versions)) - Cardinality(Excluded)

\* the as-stated reading of C26: the frame holds for the passes of both
\* inspector scripts
C26_AsStated == [][\A script \in InspectorScripts : FilterFrame(script)]_vars

\* C26: when OS_FILTER is set, a pass of extract_daemon_versions downloads,
\* extracts and executes nothing for an entry whose lower-cased file name does
\* not contain the filter value, leaves the entry as it was and does not count
\* it as updated
C26_FilterFrame == [][FilterFrame("extract_daemon_versions")]_vars

\* with OS_FILTER set, a pass of extract_daemon_versions has passed over an
\* entry of another platform that carries no daemon_version, and has processed,
\* updated and written the entry of the selected platform
C26_Witness ==
    /\ OS_FILTER # << >>
    /\ Len(inspect_log) = 1
    /\ inspect_log[1].script = "extract_daemon_versions"
    /\ inspect_log[1].updated_count = 1
    /\ inspect_log[1].wrote
    /\ \E k, n \in 1..Len(inspect_log[1].events) :
          /\ OtherPlatform(inspect_log[1].events[k].file_name)
          /\ inspect_log[1].events[k].skipped
          /\ "daemon_version" \notin DOMAIN FilesOf(le_versions)[k]
          /\ ~ OtherPlatform(inspect_log[1].events[n].file_name)
          /\ inspect_log[1].events[n].downloads = 1
          /\ HasValue(FilesOf(le_versions)[n], "daemon_version")

(***************************************************************************)
(* Properties of the macos keywords                                        *)
(***************************************************************************)
\* the positions at which word occurs in s
Occurrences(word, s) ==
    {i \in 1..Len(s) : i + Len(word) - 1 <= Len(s)
                       /\ SubSeq(s, i, i + Len(word) - 1) = word}

\* every "win" of the name is the one inside a "darwin"
WinOnlyInDarwin(name) ==
    \A i \in Occurrences(<<"w","i","n">>, name) : (i - 3) \in Occurrences(<<"d","a","r","w","i","n">>, name)

\* C27: version_grouped puts in the macos bucket every file whose lower-cased
\* name contains "darwin", "mac" or "osx" and no "win" other than the one
\* inside "darwin"
C27_MacosKeywords ==
    grouped_call.done =>
        \A file \in Range(AllFiles(grouped_call.data)) :
            LET name == ToLower(file.file_name)
            IN  ( /\ \E word \in { <<"m","a","c">>, <<"o","s","x">>, <<"d","a","r","w","i","n">> } : Occurrences(word, name) # {}
                  /\ WinOnlyInDarwin(name) )
                    => file \in Range(grouped_call.grouped["macos"])

(***************************************************************************)
(* Properties of the recorded daemon version                               *)
(***************************************************************************)
\* digits separated by exactly three dots and nothing else
FourComponents(s) ==
    /\ Len(s) > 0
    /\ \A i \in 1..Len(s) : IsDigit(s[i]) \/ s[i] = "."
    /\ Cardinality({i \in 1..Len(s) : s[i] = "."}) = 3
    /\ IsDigit(s[1])
    /\ IsDigit(s[Len(s)])
    /\ \A i \in 1..(Len(s) - 1) : ~ (s[i] = "." /\ s[i + 1] = ".")

\* C28: every daemon_version that a pass of extract_daemon_versions writes
\* into a catalog entry is a dotted numeric version of exactly four components,
\* whether a started process printed it or the bytes of the binary held it
C28_FourComponents ==
    [][PassStep("extract_daemon_versions") =>
          \A k \in 1..Len(FilesOf(le_versions')) :
              LET after == FilesOf(le_versions')[k]
              IN  ( /\ "daemon_version" \in DOMAIN after
                    /\ ~ FieldSame(FilesOf(le_versions)[k], after, "daemon_version") )
                      => FourComponents(after["daemon_version"])]_vars

====
